---------------------------- MODULE Spec2Model ----------------------------
(***************************************************************************)
(* A model of the event/resource scheduling substrate of simpy4chips:      *)
(* the deferred-success event (simpyExtensions/util.py), the Put/Get/Peek  *)
(* request queues of Buffer and CreditBuffer (Components/Buffers.py) and   *)
(* the Pipeline / FlowControlledPipeline (Components/Pipelines.py).        *)
(*                                                                         *)
(* The program is single threaded: everything happens inside one          *)
(* callback of the event loop or inside one call made by a user process.   *)
(* Each such call is one action.  The handlers are operators on a record   *)
(* S that holds all the fields of the objects; an action applies a         *)
(* handler to the current state and stores the result.                     *)
(***************************************************************************)
EXTENDS Integers, Sequences, FiniteSets, TLC

\* ------------------------------------------------------------------ bounds
MaxEvents  == 2   \* SpecEv: events a user process creates
MaxValue   == 1   \* SpecEv: values passed to succeed are 0..MaxValue
MaxDelay   == 1   \* SpecEv: delays passed to succeed are 0..MaxDelay
MaxCalls   == 4   \* SpecBuf: put, get, peek and cancel calls of the user processes
MaxPipeCalls == 3 \* SpecFC, SpecCredit: calls of the user processes
MaxCap     == 2   \* capacities / initial credits are 1..MaxCap
DebtDen    == 2   \* debts are fixed point numbers k/DebtDen, 0 <= k < DebtDen
MaxPorts   == 4   \* SpecArb: crossbars have 1..MaxPorts input ports
MaxRounds  == 5   \* SpecArb: calls of arbitratePkts
MaxPuts    == 2   \* SpecPipe: put calls on the pipeline
MaxMembers == 3   \* SpecAllOf: events a user process creates
MaxList    == 2   \* SpecAllOf: length of the list given to ConcurrentAllOf
MaxReplace == 1   \* SpecAllOf: replacements of an event in the list
MaxXPorts  == 2   \* SpecXbar: crossbars have 1..MaxXPorts input ports
MaxXCalls  == 3   \* SpecXbar: packets offered, get calls and declined gets

\* The delays of a configuration (putDelay, getDelay, depth, in cycles) and
\* the whole transmit ticks of a packet: zero and non-zero.
Delays == {0, 1}

Ticks == {0, 1}

\* --------------------------------------------------------------- constants
PENDING == -9             \* simpy.events.PENDING: the value of no triggered event
None == 0                \* Python's None, as item or value of an event
URGENT == 0              \* simpy.events.URGENT
NORMAL == 1              \* simpy.events.NORMAL
simTicksPerCycle == 1    \* SimSettings.simTicksPerCycle
NonePort == -2           \* None where a port index is expected
NoEvent == <<"None", 0>> \* None where an event is expected

VARIABLES
  now,          \* Environment._now
  queue,        \* Environment._queue, in the order in which step() pops it
  events,       \* every Event object created so far, by id
  err,          \* the exception that ended the run ("" while it runs)
  packets,      \* the packets created so far: what getTicks() returns for each
  cls,          \* class of the buffer: Buffer, StoreAndForwardBuffer, FlowControlledBuffer
  capacity,     \* Buffer._capacity
  putDelay,     \* Buffer.putDelay
  getDelay,     \* Buffer.getDelay
  items,        \* Buffer.items (packet ids)
  put_queue,    \* Buffer.put_queue (event ids)
  get_queue,    \* Buffer.get_queue
  peek_queue,   \* Buffer.peek_queue
  putDebt,      \* Buffer.putDebt, in units of 1/DebtDen
  getDebt,      \* Buffer.getDebt
  pipeCls,      \* class of the pipeline: Pipeline, FlowControlledPipeline, "" (none)
  depth,        \* Pipeline.depth
  initCredits,  \* FlowControlledPipeline.initCredits
  pipe_put_queue,    \* Pipeline.put_queue
  putBusy,           \* Pipeline.putBusy
  pipePutDebt,       \* Pipeline.putDebt
  credit_items,      \* CreditBuffer.items
  credit_put_queue,  \* CreditBuffer.put_queue
  credit_get_queue,  \* CreditBuffer.get_queue
  credit_peek_queue, \* CreditBuffer.peek_queue
  hist,         \* history of the run: what was accepted, removed, dispatched
  xbar,         \* the fields of the Crossbar and of its upstream ports
  arb,          \* the arbitration rounds run so far
  eventList,    \* ConcurrentAllOf.eventList
  popped        \* the number of events step() has popped from the queue

vars == <<now, queue, events, err, packets, cls, capacity, putDelay, getDelay,
          items, put_queue, get_queue, peek_queue, putDebt, getDebt,
          pipeCls, depth, initCredits, pipe_put_queue, putBusy,
          pipePutDebt, credit_items, credit_put_queue, credit_get_queue,
          credit_peek_queue, hist, xbar, arb, eventList, popped>>

\* The fields of all objects as one record, on which the handlers work.
State ==
  [now |-> now, queue |-> queue, events |-> events, err |-> err,
   packets |-> packets, cls |-> cls, capacity |-> capacity,
   putDelay |-> putDelay, getDelay |-> getDelay, items |-> items,
   put_queue |-> put_queue, get_queue |-> get_queue,
   peek_queue |-> peek_queue, putDebt |-> putDebt, getDebt |-> getDebt,
   pipeCls |-> pipeCls, depth |-> depth,
   initCredits |-> initCredits, pipe_put_queue |-> pipe_put_queue,
   putBusy |-> putBusy, pipePutDebt |-> pipePutDebt,
   credit_items |-> credit_items, credit_put_queue |-> credit_put_queue,
   credit_get_queue |-> credit_get_queue,
   credit_peek_queue |-> credit_peek_queue, hist |-> hist,
   xbar |-> xbar, arb |-> arb, eventList |-> eventList,
   popped |-> popped,
   ret |-> FALSE,        \* the return value of the _do_ hook called last
   chosen |-> NonePort,  \* the return value of arbitratePkts called last
   rnd |-> 0,            \* what random.choice draws in this step
   declines |-> FALSE]   \* whether the upstream declines a get in this step

SetState(S) ==
  /\ now' = S.now /\ queue' = S.queue /\ events' = S.events /\ err' = S.err
  /\ packets' = S.packets /\ cls' = S.cls /\ capacity' = S.capacity
  /\ putDelay' = S.putDelay /\ getDelay' = S.getDelay /\ items' = S.items
  /\ put_queue' = S.put_queue /\ get_queue' = S.get_queue
  /\ peek_queue' = S.peek_queue /\ putDebt' = S.putDebt
  /\ getDebt' = S.getDebt
  /\ pipeCls' = S.pipeCls /\ depth' = S.depth /\ initCredits' = S.initCredits
  /\ pipe_put_queue' = S.pipe_put_queue /\ putBusy' = S.putBusy
  /\ pipePutDebt' = S.pipePutDebt /\ credit_items' = S.credit_items
  /\ credit_put_queue' = S.credit_put_queue
  /\ credit_get_queue' = S.credit_get_queue
  /\ credit_peek_queue' = S.credit_peek_queue
  /\ hist' = S.hist /\ xbar' = S.xbar /\ arb' = S.arb
  /\ eventList' = S.eventList /\ popped' = S.popped

\* ------------------------------------------------------------ sequences
RemoveAt(s, i) == SubSeq(s, 1, i - 1) \o SubSeq(s, i + 1, Len(s))

InSeq(x, s) == \E i \in 1..Len(s) : s[i] = x

\* list.index(x): the first position of x (0 when absent)
IndexOf(x, s) ==
  IF InSeq(x, s) THEN CHOOSE i \in 1..Len(s) :
                        s[i] = x /\ \A j \in 1..(i - 1) : s[j] # x
  ELSE 0

\* ---------------------------------------------------------------- events
\* Event.__init__ / NewEvent.__init__: a pending event without callbacks.
\* Events are named <<class, n>>: the n-th event of its class.
NewId(S, c) == <<c, Cardinality({x \in DOMAIN S.events : x[1] = c}) + 1>>

NewEvent(S, c, item) ==
  [S EXCEPT !.events = @ @@ (NewId(S, c) :>
      [item |-> item, value |-> PENDING, callbacks |-> <<>>,
       processed |-> FALSE])]

\* Event.triggered
Triggered(S, e) == S.events[e].value # PENDING

\* event.callbacks.append(cb) / event.callbacks += cbs
AddCallbacks(S, e, cbs) ==
  [S EXCEPT !.events[e].callbacks = @ \o cbs]

Raise(S, what) == [S EXCEPT !.err = what]

\* Environment.schedule that files the entry at the current time.
ScheduleIgnoresDelay(S, e, prio, delay) ==
  LET ent == [time |-> S.now, prio |-> prio, ev |-> e]
      k == Cardinality({i \in 1..Len(S.queue) :
              \/ S.queue[i].time < ent.time
              \/ /\ S.queue[i].time = ent.time
                 /\ S.queue[i].prio <= ent.prio})
  IN [S EXCEPT !.queue = SubSeq(@, 1, k) \o <<ent>> \o SubSeq(@, k + 1, Len(@))]

\* Environment.schedule: heappush of (now + delay, priority, eid, event);
\* the eid makes entries of equal time and priority come out in push order.
Schedule(S, e, prio, delay) ==
  LET ent == [time |-> S.now + delay, prio |-> prio, ev |-> e]
      k == Cardinality({i \in 1..Len(S.queue) :
              \/ S.queue[i].time < ent.time
              \/ /\ S.queue[i].time = ent.time
                 /\ S.queue[i].prio <= ent.prio})
  IN [S EXCEPT !.queue = SubSeq(@, 1, k) \o <<ent>> \o SubSeq(@, k + 1, Len(@))]

\* The same without the guard against a second call.
SucceedUnguarded(S, e, value, delay) ==
  Schedule([S EXCEPT !.events[e].value = value], e, NORMAL, delay)

\* NewEvent.succeed(value, delay)
Succeed(S, e, value, delay) ==
  IF S.events[e].value # PENDING
  THEN Raise(S, "RuntimeError: has already been triggered")
  ELSE Schedule([S EXCEPT !.events[e].value = value], e, NORMAL, delay)


\* ------------------------------------------------------------- packets
\* BasePacket.getTicks(bytesPerCycle): (whole ticks, fractional debt)
getTicks(S, pkt) == S.packets[pkt]

\* int(debt + d) that leaves out the debt carried from earlier packets.
CarryWithoutDebt(debt, d) == d \div DebtDen

\* int(debt + d) and (debt + d) - int(debt + d) in fixed point
DebtCarry(debt, d) == (debt + d) \div DebtDen

DebtRest(debt, d) == (debt + d) % DebtDen

\* The trigger loop of a request queue (defined below) re-enters the hooks.
RECURSIVE Trigger(_, _, _)

\* --------------------------------------------------------------- logging
FATAL_ERROR == <<"F", "A", "T", "A", "L", "_", "E", "R", "R", "O", "R">>
WARNING == <<"W", "A", "R", "N", "I", "N", "G">>
INFO == <<"I", "N", "F", "O">>
DEBUG == <<"D", "E", "B", "U", "G">>

\* pattern in text, for strings given letter by letter
Contains(pattern, text) ==
  \E i \in 0..(Len(text) - Len(pattern)) :
    SubSeq(text, i + 1, i + Len(pattern)) = pattern

\* ComponentBase.Log: writes the message, raises for an unsupported type and
\* "if the message was an error"
Log(S, msgtype) ==
  IF msgtype \notin {FATAL_ERROR, WARNING, INFO, DEBUG}
  THEN Raise(S, "RuntimeError: Unsupported message type")
  ELSE IF Contains(<<"E", "R", "R", "R", "O", "R">>, msgtype)
  THEN Raise(S, "RuntimeError: fatal error")
  ELSE S

\* ------------------------------------------------------- CreditBuffer
\* Store._do_put, inherited by CreditBuffer, without the capacity test.
StoreDoPutUnbounded(S, e) ==
  [Succeed([S EXCEPT !.credit_items = Append(@, S.events[e].item)],
           e, None, 0) EXCEPT !.ret = FALSE]

\* Store._do_put, inherited by CreditBuffer (capacity = initCredits)
Store_do_put(S, e) ==
  IF Len(S.credit_items) < S.initCredits
  THEN [Succeed([S EXCEPT !.credit_items = Append(@, S.events[e].item)],
                e, None, 0) EXCEPT !.ret = FALSE]
  ELSE [S EXCEPT !.ret = FALSE]

\* Store._do_get, inherited by CreditBuffer
Store_do_get(S, e) ==
  IF S.credit_items # <<>>
  THEN [Succeed([S EXCEPT !.credit_items = Tail(@)],
                e, Head(S.credit_items), 0) EXCEPT !.ret = FALSE]
  ELSE [S EXCEPT !.ret = FALSE]

\* CreditBuffer._do_peek
CreditBuffer_do_peek(S, e) ==
  IF Len(S.credit_items) > S.events[e].item
  THEN [Succeed(S, e, None, 0) EXCEPT !.ret = TRUE]
  ELSE [S EXCEPT !.ret = FALSE]

\* CreditBuffer.put(item): StorePut.__init__ and the extra callback
CreditBuffer_put(S, item) ==
  LET e  == NewId(S, "StorePut")
      S1 == NewEvent(S, "StorePut", item)
      S2 == [S1 EXCEPT !.credit_put_queue = Append(@, e)]
      S3 == AddCallbacks(S2, e, <<"CreditBuffer._trigger_get">>)
      S4 == Trigger(S3, "credit_put_queue", 0)
  IN AddCallbacks(S4, e, <<"CreditBuffer._trigger_peek">>)

\* CreditBuffer.get(): StoreGet.__init__
CreditBuffer_get(S) ==
  LET e  == NewId(S, "StoreGet")
      S1 == NewEvent(S, "StoreGet", None)
      S2 == [S1 EXCEPT !.credit_get_queue = Append(@, e)]
      S3 == AddCallbacks(S2, e, <<"CreditBuffer._trigger_put">>)
  IN Trigger(S3, "credit_get_queue", 0)

\* CreditBuffer.peek(thresh): BufferPeek.__init__
CreditBuffer_peek(S, thresh) ==
  LET e  == NewId(S, "CreditPeek")
      S1 == NewEvent(S, "CreditPeek", thresh)
      S2 == [S1 EXCEPT !.credit_peek_queue = Append(@, e)]
  IN Trigger(S2, "credit_peek_queue", 0)

\* ------------------------------------------- FlowControlledPipeline (1)
\* FlowControlledPipeline.putCredit
putCredit(S) ==
  LET e  == NewId(S, "putCreditEvent")
      S1 == NewEvent(S, "putCreditEvent", None)
      S2 == AddCallbacks(S1, e, <<"Pipeline._increment_credit",
                                  "Pipeline._trigger_put">>)
      S3 == [S2 EXCEPT !.hist.dispatched = @ + 1]
  IN Succeed(S3, e, None, S.depth * simTicksPerCycle)

\* FlowControlledPipeline._increment_credit that drops the credit.
IncrementCreditDropped(S) == S

\* FlowControlledPipeline._increment_credit
increment_credit(S) ==
  LET S1 == IF Len(S.credit_items) = S.initCredits
            THEN Log(S, FATAL_ERROR) ELSE S
  IN IF S1.err # "" THEN S1
     ELSE Log(CreditBuffer_put(S1, 1), INFO)

\* -------------------------------------------------------------- Buffer
\* Buffer.addPrePutDelay / StoreAndForwardBuffer.addPrePutDelay
addPrePutDelay(S, item) ==
  IF S.cls = "StoreAndForwardBuffer"
  THEN (getTicks(S, item).ticks + DebtCarry(S.putDebt, getTicks(S, item).debt)
        + S.putDelay) * simTicksPerCycle
  ELSE S.putDelay * simTicksPerCycle

\* Buffer.addPostPutDelay / StoreAndForwardBuffer.addPostPutDelay
addPostPutDelay(S, item) ==
  IF S.cls = "StoreAndForwardBuffer"
  THEN (getTicks(S, item).ticks + DebtCarry(S.putDebt, 0)) * simTicksPerCycle
  ELSE (getTicks(S, item).ticks + DebtCarry(S.putDebt, getTicks(S, item).debt))
       * simTicksPerCycle

\* Buffer.addPreGetDelay
addPreGetDelay(S, item) == S.getDelay * simTicksPerCycle

\* Buffer.addPostGetDelay
addPostGetDelay(S, item) == getTicks(S, item).ticks * simTicksPerCycle

\* Buffer._insert_packet (postPutMsg only logs)
insert_packet(S, e) == [S EXCEPT !.items = Append(@, S.events[e].item)]

\* Buffer._remove_packet, as every buffer but the flow controlled one has it.
RemoveNoCredit(S, e) ==
  IF S.items = <<>> THEN Raise(S, "IndexError: pop from empty list")
  ELSE [S EXCEPT !.items = Tail(@), !.hist.removed = Append(@, Head(S.items))]

\* Buffer._remove_packet / FlowControlledBuffer._remove_packet
remove_packet(S, e) ==
  IF S.items = <<>> THEN Raise(S, "IndexError: pop from empty list")
  ELSE LET S1 == [S EXCEPT !.items = Tail(@),
                           !.hist.removed = Append(@, Head(S.items))]
       IN IF S.cls = "FlowControlledBuffer" THEN putCredit(S1) ELSE S1

\* Buffer._do_get
Buffer_do_get(S, e) ==
  IF S.items # <<>>
  THEN LET item == Head(S.items)
           pregetdelay == addPreGetDelay(S, item)
           S0 == [S EXCEPT !.hist.granted =
                     Append(@, [ev |-> e, occ |-> Len(S.items)])]
           S1 == IF pregetdelay # 0
                 THEN Succeed(AddCallbacks(S0, e, <<"Buffer._remove_packet",
                                                    "Buffer._trigger_put">>),
                              e, item, pregetdelay)
                 ELSE Succeed(remove_packet(
                                AddCallbacks(S0, e, <<"Buffer._trigger_put">>), e),
                              e, item, pregetdelay)
       IN [S1 EXCEPT !.getDebt = DebtRest(S.getDebt, getTicks(S, item).debt),
                     !.ret = FALSE]
  ELSE [S EXCEPT !.ret = FALSE]

\* Buffer._do_peek
Buffer_do_peek(S, e) ==
  IF S.items # <<>>
  THEN [Succeed(S, e, Head(S.items), 0) EXCEPT !.ret = FALSE]
  ELSE [S EXCEPT !.ret = FALSE]

\* Buffer._do_put, the branch taken when the put is accepted
Buffer_accept_put(S, e) ==
  LET item == S.events[e].item
      preputdelay == addPrePutDelay(S, item)
      postputdelay == addPostPutDelay(S, item)
      S0 == [S EXCEPT !.hist.accepted =
                Append(@, [ev |-> e, occ |-> Len(S.items)])]
      S1 == IF preputdelay # 0
            THEN LET ev == NewId(S0, "NewEvent")
                     A1 == NewEvent(S0, "NewEvent", item)
                     A2 == AddCallbacks(A1, ev, <<"Buffer._insert_packet",
                                                  "Buffer._trigger_get",
                                                  "Buffer._trigger_peek">>)
                     A3 == Succeed(A2, ev, None, preputdelay)
                 IN Succeed(A3, e, None, postputdelay)
            ELSE LET B1 == Succeed(S0, e, None, postputdelay)
                     B2 == insert_packet(B1, e)
                     B3 == Trigger(B2, "get_queue", 0)
                 IN Trigger(B3, "peek_queue", 0)
  IN [S1 EXCEPT !.putDebt = DebtRest(S.putDebt, getTicks(S, item).debt),
                !.ret = FALSE]

\* Buffer._do_put with <= in place of < in its capacity test.
BufferDoPutOffByOne(S, e) ==
  IF Len(S.items) <= S.capacity
  THEN Buffer_accept_put(S, e)
  ELSE [S EXCEPT !.ret = FALSE]

\* Buffer._do_put
Buffer_do_put(S, e) ==
  IF Len(S.items) < S.capacity
  THEN Buffer_accept_put(S, e)
  ELSE [S EXCEPT !.ret = FALSE]

\* Buffer.put(item): BufferPut.__init__
Buffer_put(S, item) ==
  LET S1 == NewEvent(S, "BufferPut", item)
      S2 == [S1 EXCEPT !.put_queue = Append(@, NewId(S, "BufferPut"))]
  IN Trigger(S2, "put_queue", 0)

\* Buffer.get(): BufferGet.__init__
Buffer_get(S) ==
  LET S1 == NewEvent(S, "BufferGet", None)
      S2 == [S1 EXCEPT !.get_queue = Append(@, NewId(S, "BufferGet"))]
  IN Trigger(S2, "get_queue", 0)

\* Buffer.peek(): BufferPeek.__init__
Buffer_peek(S) ==
  LET S1 == NewEvent(S, "BufferPeek", None)
      S2 == [S1 EXCEPT !.peek_queue = Append(@, NewId(S, "BufferPeek"))]
  IN Trigger(S2, "peek_queue", 0)


\* ------------------------------------------------------- Pipeline (2)
\* Pipeline.addPostPutDelay
Pipeline_addPostPutDelay(S, item) ==
  (getTicks(S, item).ticks + DebtCarry(S.pipePutDebt, getTicks(S, item).debt))
  * simTicksPerCycle

\* env.process(self._putdelay(pkt)): the Initialize event of the new process
StartPutdelay(S, pkt) ==
  LET e  == NewId(S, "Initialize")
      S1 == NewEvent(S, "Initialize", pkt)
      S2 == AddCallbacks(S1, e, <<"_putdelay.start">>)
  IN Schedule([S2 EXCEPT !.events[e].value = None], e, URGENT, 0)

\* Pipeline._putdelay up to its first yield: env.timeout(depth cycles)
putdelay_start(S, e) ==
  LET t  == NewId(S, "Timeout")
      S1 == NewEvent(S, "Timeout", S.events[e].item)
      S2 == AddCallbacks(S1, t, <<"_putdelay.put">>)
  IN Schedule([S2 EXCEPT !.events[t].value = None], t, NORMAL,
              S.depth * simTicksPerCycle)

\* Pipeline._putdelay after the timeout: yield self.toDn.put(item).  The
\* process ends when that put is processed; nothing waits for its end.
putdelay_put(S, e) == Buffer_put(S, S.events[e].item)

\* Pipeline._do_put that lets the put fire when the packet arrives
\* downstream, after depth cycles.
AcceptPutAfterDepth(S, e) ==
  LET pkt == S.events[e].item
      S0 == [S EXCEPT !.hist.piped = Append(@, [ev |-> e, time |-> S.now])]
      S1 == Succeed(S0, e, None, S.depth * simTicksPerCycle)
      S2 == StartPutdelay(S1, pkt)
  IN [S2 EXCEPT !.pipePutDebt = DebtRest(S.pipePutDebt, getTicks(S, pkt).debt),
                !.ret = FALSE]

\* Pipeline._do_put, the part after the credit test
Pipeline_accept_put(S, e) ==
  LET pkt == S.events[e].item
      ticks == Pipeline_addPostPutDelay(S, pkt)
      S0 == [S EXCEPT !.hist.piped = Append(@, [ev |-> e, time |-> S.now])]
      S1 == Succeed(S0, e, None, ticks)
      S2 == StartPutdelay(S1, pkt)
  IN [S2 EXCEPT !.pipePutDebt = DebtRest(S.pipePutDebt, getTicks(S, pkt).debt),
                !.ret = FALSE]

\* FlowControlledPipeline._do_put that takes no credit from the counter.
PipelineDoPutKeepsCredit(S, e) ==
  IF S.pipeCls = "FlowControlledPipeline"
  THEN IF S.credit_items # <<>>
       THEN Pipeline_accept_put(S, e)
       ELSE [S EXCEPT !.ret = FALSE]
  ELSE Pipeline_accept_put(S, e)

\* Pipeline._do_put / FlowControlledPipeline._do_put
Pipeline_do_put(S, e) ==
  IF S.pipeCls = "FlowControlledPipeline"
  THEN IF S.credit_items # <<>>
       THEN Pipeline_accept_put(CreditBuffer_get(S), e)
       ELSE [S EXCEPT !.ret = FALSE]
  ELSE Pipeline_accept_put(S, e)

\* Pipeline.put(item): PipelinePut.__init__
Pipeline_put(S, item) ==
  LET e  == NewId(S, "PipelinePut")
      S1 == NewEvent(S, "PipelinePut", item)
      S2 == [S1 EXCEPT !.pipe_put_queue = Append(@, e)]
      S3 == AddCallbacks(S2, e, <<"Pipeline._putReady">>)
  IN Trigger(S3, "pipe_put_queue", 0)

\* Pipeline._putReady
putReady(S) == [S EXCEPT !.putBusy = FALSE]

\* Crossbar.__init__ has not run
NoXbarRec ==
  [cls |-> "", inPorts |-> 0, outPorts |-> 0, lastport |-> <<>>,
   hasWeights |-> FALSE, weights |-> <<>>, grants |-> <<>>,
   priorities |-> <<>>, lastportPerClass |-> <<>>,
   peekEvents |-> <<>>, unMaskEvents |-> <<>>, routes |-> <<>>,
   routedPktList |-> <<>>, get_queues |-> <<>>, arbEvents |-> <<>>,
   up |-> <<>>, up_peek_queue |-> <<>>, upPre |-> 0, upPost |-> 0, masked |-> FALSE,
   started |-> FALSE]

NoRounds ==
  [cands |-> {}, changed |-> FALSE, start |-> NonePort, wins |-> <<>>,
   calls |-> 0, last |-> [cands |-> {}, result |-> NonePort, ok |-> TRUE],
   offered |-> 0, declined |-> {}]

NoXbar == xbar = NoXbarRec /\ arb = NoRounds

\* ------------------------------------------------------------- arbiters
\* Python's list[i]: i counts from 0, a negative i from the end
PyIdx(i, n) == IF i < 0 THEN i + n ELSE i

At(list, i) == list[PyIdx(i, Len(list)) + 1]

SetAt(list, i, v) == [list EXCEPT ![PyIdx(i, Len(list)) + 1] = v]

\* [i for i, pkt in enumerate(pktList) if pkt != None]
activeports(pktList) ==
  SelectSeq([i \in 1..Len(pktList) |-> i - 1],
            LAMBDA i : At(pktList, i) # None)

\* self.toUp[port].name if self.inPorts > 1 else self.toUp.name: toUp is a
\* dict with the keys 0..inPorts-1
toUpName(S, port) ==
  IF S.xbar.inPorts > 1 /\ port \notin 0..(S.xbar.inPorts - 1)
  THEN Raise(S, "KeyError") ELSE S

\* Crossbar.arbitratePkts: a random active port
Crossbar_arbitratePkts(S, pktList, outPort) ==
  LET active == activeports(pktList)
  IN IF active # <<>>
     THEN LET candidate == active[(S.rnd % Len(active)) + 1]
          IN [S EXCEPT !.xbar.lastport = SetAt(@, outPort, candidate),
                       !.chosen = candidate]
     ELSE [S EXCEPT !.chosen = NonePort]

\* the while loop of RoundRobinCrossbar.arbitratePkts
RECURSIVE RoundRobinScan(_, _, _, _, _)
RoundRobinScan(S, pktList, outPort, count, candidate) ==
  IF count >= S.xbar.inPorts THEN [S EXCEPT !.chosen = NonePort]
  ELSE IF At(pktList, candidate) # None
  THEN LET S1 == [S EXCEPT !.xbar.lastport = SetAt(@, outPort, candidate)]
           S2 == toUpName(S1, candidate)
       IN IF S2.err # "" THEN S2 ELSE [Log(S2, INFO) EXCEPT !.chosen = candidate]
  ELSE RoundRobinScan(S, pktList, outPort, count + 1,
                      (candidate + 1) % S.xbar.inPorts)

\* Round robin that starts its scan at the port served last.
RoundRobinFromLast(S, pktList, outPort) ==
  RoundRobinScan(S, pktList, outPort, 0,
                 PyIdx(At(S.xbar.lastport, outPort), S.xbar.inPorts))

\* RoundRobinCrossbar.arbitratePkts
RoundRobin_arbitratePkts(S, pktList, outPort) ==
  RoundRobinScan(S, pktList, outPort, 0,
                 (At(S.xbar.lastport, outPort) + 1) % S.xbar.inPorts)

\* the while loop of WeightedRoundRobinCrossbar.arbitratePkts; the result
\* carries selectedCandidate in chosen
RECURSIVE WeightedScan(_, _, _, _, _)
WeightedScan(S, pktList, count, candidate, decisionMade) ==
  IF ~(count < S.xbar.inPorts /\ ~decisionMade) THEN S
  ELSE IF At(pktList, candidate) = None
  THEN WeightedScan(S, pktList, count + 1,
                    (candidate + 1) % S.xbar.inPorts, decisionMade)
  ELSE IF ~S.xbar.hasWeights
  THEN Raise(S, "AttributeError: no attribute weights")
  ELSE LET more == At(S.xbar.weights, candidate) > At(S.xbar.grants, candidate)
           S1 == IF more \/ S.chosen = NonePort
                 THEN [S EXCEPT !.chosen = candidate] ELSE S
           S2 == IF At(S1.xbar.grants, candidate) = At(S1.xbar.weights, candidate)
                 THEN [S1 EXCEPT !.xbar.grants = SetAt(@, candidate, 0)]
                 ELSE S1
       IN WeightedScan(S2, pktList, count + 1,
                       (candidate + 1) % S.xbar.inPorts, more)

\* WeightedRoundRobinCrossbar.arbitratePkts
Weighted_arbitratePkts(S, pktList, outPort) ==
  LET S1 == WeightedScan([S EXCEPT !.chosen = NonePort], pktList, 0,
                         At(S.xbar.lastport, outPort), FALSE)
      sel == S1.chosen
  IN IF S1.err # "" \/ sel = NonePort THEN S1
     ELSE LET S2 == [S1 EXCEPT
                       !.xbar.lastport = SetAt(@, outPort, sel),
                       !.xbar.grants = SetAt(@, sel, At(@, sel) + 1)]
              S3 == toUpName(S2, sel)
          IN IF S3.err # "" THEN [S3 EXCEPT !.chosen = NonePort]
             ELSE Log(S3, INFO)

\* max(list)
Max(set) == CHOOSE m \in set : \A x \in set : x <= m

\* the while loop of FixedPriorityCrossbar.arbitratePkts
RECURSIVE FixedPriorityScan(_, _, _, _, _, _)
FixedPriorityScan(S, pktList, outPort, maxpriority, count, candidate) ==
  IF count >= S.xbar.inPorts THEN [S EXCEPT !.chosen = NonePort]
  ELSE IF At(pktList, candidate) # None
  THEN LET S1 == [S EXCEPT
                    !.xbar.lastportPerClass =
                       SetAt(@, maxpriority, SetAt(At(@, maxpriority), outPort, candidate)),
                    !.xbar.lastport = SetAt(@, outPort, candidate)]
           S2 == toUpName(S1, candidate)
       IN IF S2.err # "" THEN S2 ELSE [Log(S2, INFO) EXCEPT !.chosen = candidate]
  ELSE FixedPriorityScan(S, pktList, outPort, maxpriority, count + 1,
                         (candidate + 1) % S.xbar.inPorts)

\* Fixed priority that leaves the candidates of lower priority in the list.
FixedPriorityNoMask(S, pktList, outPort) ==
  LET active == activeports(pktList)
  IN IF active = <<>>
     THEN Raise([S EXCEPT !.chosen = NonePort], "ValueError: max() arg is an empty sequence")
     ELSE LET maxpriority ==
                Max({At(S.xbar.priorities, active[k]) : k \in 1..Len(active)})
          IN FixedPriorityScan(S, pktList, outPort, maxpriority, 0,
               (At(At(S.xbar.lastportPerClass, maxpriority), outPort) + 1)
                  % S.xbar.inPorts)

\* FixedPriorityCrossbar.arbitratePkts
FixedPriority_arbitratePkts(S, pktList, outPort) ==
  LET active == activeports(pktList)
      S0 == Log(S, DEBUG)
  IN IF active = <<>>
     THEN Raise([S0 EXCEPT !.chosen = NonePort], "ValueError: max() arg is an empty sequence")
     ELSE LET maxpriority ==
                Max({At(S.xbar.priorities, active[k]) : k \in 1..Len(active)})
              masked == [i \in 1..Len(pktList) |->
                           IF At(S.xbar.priorities, i - 1) < maxpriority
                           THEN None ELSE pktList[i]]
          IN FixedPriorityScan(S0, masked, outPort, maxpriority, 0,
               (At(At(S.xbar.lastportPerClass, maxpriority), outPort) + 1)
                  % S.xbar.inPorts)

\* self.arbitratePkts(pktList, outPort) of the crossbar's class
arbitratePkts(S, pktList, outPort) ==
  CASE S.xbar.cls = "Crossbar" -> Crossbar_arbitratePkts(S, pktList, outPort)
    [] S.xbar.cls = "RoundRobinCrossbar" ->
         RoundRobin_arbitratePkts(S, pktList, outPort)
    [] S.xbar.cls = "WeightedRoundRobinCrossbar" ->
         Weighted_arbitratePkts(S, pktList, outPort)
    [] S.xbar.cls = "FixedPriorityCrossbar" ->
         FixedPriority_arbitratePkts(S, pktList, outPort)

\* Crossbar.__init__ and the __init__ of its subclasses (outPorts = 1);
\* priorities = <<>> stands for priorities=None
Crossbar_init(S, c, inPorts, weights, priorities) ==
  LET none == [i \in 1..inPorts |-> NoEvent]
      X == [NoXbarRec EXCEPT
              !.cls = c, !.inPorts = inPorts, !.outPorts = 1,
              !.peekEvents = none, !.unMaskEvents = none,
              !.routes = [i \in 1..inPorts |-> NonePort],
              !.routedPktList = [i \in 1..inPorts |-> None],
              !.lastport = <<-1>>, !.get_queues = <<<<>>>>,
              !.arbEvents = <<NoEvent>>,
              !.up = [i \in 1..inPorts |-> <<>>],
              !.up_peek_queue = [i \in 1..inPorts |-> <<>>]]
      S1 == [S EXCEPT !.xbar = X]
  IN CASE c = "WeightedRoundRobinCrossbar" ->
            LET S2 == IF Len(weights) = inPorts
                      THEN [S1 EXCEPT !.xbar.weights = weights,
                                      !.xbar.hasWeights = TRUE]
                      ELSE Log(S1, FATAL_ERROR)
            IN IF S2.err # "" THEN Raise(S, S2.err)
               ELSE [S2 EXCEPT !.xbar.grants = [i \in 1..inPorts |-> 0]]
       [] c = "FixedPriorityCrossbar" ->
            LET prio == IF priorities = <<>> THEN [i \in 1..inPorts |-> 0]
                        ELSE priorities
                classes == Max({prio[i] : i \in 1..inPorts}) + 1
            IN [S1 EXCEPT !.xbar.priorities = prio,
                          !.xbar.lastportPerClass =
                             [k \in 1..classes |-> <<-1>>]]
       [] OTHER -> S1

\* ------------------------------------------ the crossbar's upstream ports
\* The resource connected to input port i is a buffer with the items
\* xbar.up[i], the peek queue xbar.up_peek_queue[i], the pre-get delay
\* xbar.upPre and the post-get delay its packets ask for.

\* upstream._trigger_peek / _do_peek: the oldest peek gets the head item
Up_trigger_peek(S, i) ==
  LET q == At(S.xbar.up_peek_queue, i)
      its == At(S.xbar.up, i)
  IN IF q = <<>> \/ its = <<>> THEN S
     ELSE [Succeed(S, Head(q), Head(its), 0) EXCEPT
             !.xbar.up_peek_queue = SetAt(@, i, Tail(q))]

\* upstream.peek(inPort, caller=self): BufferPeek.__init__
Up_peek(S, i) ==
  LET e  == NewId(S, "UpPeek")
      S1 == NewEvent(S, "UpPeek", i)
      S2 == [S1 EXCEPT !.xbar.up_peek_queue = SetAt(@, i, Append(At(@, i), e))]
  IN Up_trigger_peek(S2, i)

\* a packet is inserted into the upstream buffer: _insert_packet, _trigger_peek
Up_put(S, i, pkt) ==
  Up_trigger_peek([S EXCEPT !.xbar.up = SetAt(@, i, Append(At(@, i), pkt))], i)

\* upstream._remove_packet, the callback of a get with a pre-get delay
Up_remove_packet(S, e) ==
  LET i == S.events[e].item
  IN IF At(S.xbar.up, i) = <<>>
     THEN Raise(S, "IndexError: pop from empty list")
     ELSE [S EXCEPT !.xbar.up = SetAt(@, i, Tail(At(@, i)))]

\* upstream.get that hands out the head item and leaves it in the buffer.
UpGetKeepsItem(S, i) ==
  LET e  == NewId(S, "UpGet")
      S1 == NewEvent(S, "UpGet", i)
      its == At(S.xbar.up, i)
  IN IF its = <<>> THEN S1
     ELSE Succeed(S1, e, Head(its), S.xbar.upPre * simTicksPerCycle)

\* upstream.get(chosenPort, caller=self) when it is granted: BufferGet.__init__
\* and upstream._do_get
Up_get(S, i) ==
  LET e  == NewId(S, "UpGet")
      S1 == NewEvent(S, "UpGet", i)
      its == At(S.xbar.up, i)
      pre == S.xbar.upPre * simTicksPerCycle
  IN IF its = <<>> THEN S1
     ELSE IF pre # 0
     THEN Succeed(AddCallbacks(S1, e, <<"Upstream._remove_packet">>),
                  e, Head(its), pre)
     ELSE Succeed(Up_remove_packet(S1, e), e, Head(its), pre)

\* ------------------------------------------------------------- Crossbar
\* Crossbar.unMask: an event that is triggered at once, or (customised) one
\* that a user process triggers later
unMask(S, pkt, outport) ==
  LET S1 == NewEvent(S, "unMaskEvent", None)
  IN IF S.xbar.masked THEN S1
     ELSE Succeed(S1, NewId(S, "unMaskEvent"), None, 0)

\* Crossbar.route that records the destination but not the routed packet.
RouteForgetsPacket(S, peekEvent) ==
  LET inPort == IndexOf(peekEvent, S.xbar.peekEvents) - 1
      outPort == 0
  IN Log([S EXCEPT !.xbar.routes = SetAt(@, inPort, outPort)], DEBUG)

\* Crossbar.route
route(S, peekEvent) ==
  LET inPort == IndexOf(peekEvent, S.xbar.peekEvents) - 1
      pkt == S.events[peekEvent].value
      outPort == 0
  IN Log([S EXCEPT !.xbar.routes = SetAt(@, inPort, outPort),
                   !.xbar.routedPktList = SetAt(@, inPort, pkt)], DEBUG)

\* Crossbar._schedule_arbitration that does not look at arbEvents.
ScheduleArbitrationUnguarded(S, unMaskEvent) ==
  IF ~InSeq(unMaskEvent, S.xbar.unMaskEvents) THEN S
  ELSE LET outPort == At(S.xbar.routes, IndexOf(unMaskEvent, S.xbar.unMaskEvents) - 1)
           a == NewId(S, "arbEvent")
       IN IF At(S.xbar.get_queues, outPort) # <<>>
          THEN Succeed(
                 AddCallbacks(
                   [NewEvent(S, "arbEvent", outPort) EXCEPT
                      !.xbar.arbEvents = SetAt(@, outPort, a)],
                   a, <<"Crossbar._do_get">>),
                 a, None, 0)
          ELSE S

\* Crossbar._schedule_arbitration
schedule_arbitration(S, unMaskEvent) ==
  IF ~InSeq(unMaskEvent, S.xbar.unMaskEvents) THEN S
  ELSE LET outPort == At(S.xbar.routes, IndexOf(unMaskEvent, S.xbar.unMaskEvents) - 1)
           a == NewId(S, "arbEvent")
       IN IF At(S.xbar.arbEvents, outPort) = NoEvent
             /\ At(S.xbar.get_queues, outPort) # <<>>
          THEN Succeed(
                 AddCallbacks(
                   [NewEvent(S, "arbEvent", outPort) EXCEPT
                      !.xbar.arbEvents = SetAt(@, outPort, a)],
                   a, <<"Crossbar._do_get">>),
                 a, None, 0)
          ELSE S

\* the loop of _postPeekProcessing over the inputs routed to outPort, from p
RECURSIVE activeInPortsLoop(_, _, _)
activeInPortsLoop(S, outPort, p) ==
  IF p >= S.xbar.inPorts THEN Log(S, DEBUG)
  ELSE IF At(S.xbar.routes, p) # outPort
  THEN activeInPortsLoop(S, outPort, p + 1)
  ELSE LET u == At(S.xbar.unMaskEvents, p)
       IN IF u = NoEvent
          THEN Raise(S, "AttributeError: NoneType has no attribute triggered")
          ELSE IF Triggered(S, u)
          THEN IF At(S.xbar.arbEvents, outPort) = NoEvent
               THEN Log(schedule_arbitration(S, u), DEBUG)
               ELSE S
          ELSE activeInPortsLoop(
                 AddCallbacks(S, u, <<"Crossbar._schedule_arbitration">>),
                 outPort, p + 1)

\* Crossbar._postPeekProcessing
postPeekProcessing(S, peekEvent) ==
  IF ~InSeq(peekEvent, S.xbar.peekEvents)
  THEN Raise(S, "ValueError: is not in list")
  ELSE LET inPort == IndexOf(peekEvent, S.xbar.peekEvents) - 1
           S1 == IF At(S.xbar.routes, inPort) = NonePort
                 THEN route(S, peekEvent) ELSE S
           outPort == At(S1.xbar.routes, inPort)
           pkt == At(S1.xbar.routedPktList, inPort)
           S2 == [unMask(S1, pkt, outPort) EXCEPT
                    !.xbar.unMaskEvents =
                       SetAt(@, inPort, NewId(S1, "unMaskEvent"))]
       IN activeInPortsLoop(Log(S2, DEBUG), outPort, 0)

\* Crossbar.postDecisionMsg and its overrides
postDecisionMsg(S, candidate) ==
  IF S.xbar.cls = "FixedPriorityCrossbar" /\ S.xbar.inPorts > 1
  THEN Raise(S, "NameError: name selectedCandidatedate is not defined")
  ELSE IF candidate = NonePort
  THEN Raise(S, "TypeError: list indices must be integers")
  ELSE LET S1 == toUpName(S, candidate)
       IN IF S1.err # "" THEN S1 ELSE Log(S1, INFO)

\* self.cleanupEvent = NewEvent(...); callbacks.append(self._cleanup);
\* succeed(chosenPort, delay)
StartCleanup(S, outPort, chosenPort, delay) ==
  LET c == NewId(S, "cleanupEvent")
  IN Succeed(AddCallbacks(NewEvent(S, "cleanupEvent", outPort), c,
                          <<"Crossbar._cleanup">>),
             c, chosenPort, delay)

\* Crossbar._do_get from the upstream get on, with a declined get handled
\* like a granted one.
TransferIgnoresDecline(S, outPort, pktList, chosenPort, previous) ==
  LET pkt == At(pktList, chosenPort)
      S0  == toUpName(S, chosenPort)
      pre  == S.xbar.upPre * simTicksPerCycle
      post == getTicks(S, pkt).ticks * simTicksPerCycle
      S1 == Log(IF S.declines THEN S0 ELSE Up_get(S0, chosenPort), DEBUG)
      S2 == Succeed(S1, Head(At(S1.xbar.get_queues, outPort)), pkt, pre)
      S3 == [S2 EXCEPT !.xbar.get_queues = SetAt(@, outPort, Tail(At(@, outPort))),
                       !.arb.declined =
                          @ \cup (IF S.declines
                                  THEN {NewId(S, "cleanupEvent")} ELSE {})]
  IN IF S0.err # "" THEN S0
     ELSE StartCleanup(S3, outPort, chosenPort, pre + post)

\* Crossbar._do_get that hands the packet to the newest Get request.
TransferToNewest(S, outPort, pktList, chosenPort, previous) ==
  LET pkt == At(pktList, chosenPort)
      S0  == toUpName(S, chosenPort)
      pre  == S.xbar.upPre * simTicksPerCycle
      post == getTicks(S, pkt).ticks * simTicksPerCycle
      q == At(S.xbar.get_queues, outPort)
  IN IF S0.err # "" THEN S0
     ELSE IF ~S.declines
     THEN LET S1 == Log(Up_get(S0, chosenPort), DEBUG)
              S2 == Succeed(S1, q[Len(q)], pkt, pre)
              S3 == [S2 EXCEPT !.xbar.get_queues =
                                  SetAt(@, outPort, SubSeq(q, 1, Len(q) - 1)),
                               !.hist.served = Append(@, q)]
          IN StartCleanup(S3, outPort, chosenPort, pre + post)
     ELSE LET S1 == [S0 EXCEPT !.xbar.lastport = SetAt(@, outPort, previous),
                               !.arb.declined =
                                  @ \cup {NewId(S, "cleanupEvent")}]
          IN Log(StartCleanup(S1, outPort, chosenPort, simTicksPerCycle), DEBUG)

\* Crossbar._do_get from the upstream get on
Transfer(S, outPort, pktList, chosenPort, previous) ==
  LET pkt == At(pktList, chosenPort)
      S0  == toUpName(S, chosenPort)
      pre  == S.xbar.upPre * simTicksPerCycle
      post == getTicks(S, pkt).ticks * simTicksPerCycle
  IN IF S0.err # "" THEN S0
     ELSE IF ~S.declines
     THEN LET S1 == Log(Up_get(S0, chosenPort), DEBUG)
              S2 == Succeed(S1, Head(At(S1.xbar.get_queues, outPort)), pkt, pre)
              S3 == [S2 EXCEPT !.xbar.get_queues =
                                  SetAt(@, outPort, Tail(At(@, outPort))),
                               !.hist.served =
                                  Append(@, At(S.xbar.get_queues, outPort))]
          IN StartCleanup(S3, outPort, chosenPort, pre + post)
     ELSE LET S1 == [S0 EXCEPT !.xbar.lastport = SetAt(@, outPort, previous),
                               !.arb.declined =
                                  @ \cup {NewId(S, "cleanupEvent")}]
          IN Log(StartCleanup(S1, outPort, chosenPort, simTicksPerCycle), DEBUG)

\* Crossbar._do_get that offers every routed packet to the arbiter, its
\* unmask event triggered or not.
DoGetIgnoresMask(S, arbitrateEvent) ==
  LET outPort == S.events[arbitrateEvent].item
      pktList == [i \in 1..S.xbar.inPorts |->
                    IF At(S.xbar.routes, i - 1) = outPort
                    THEN At(S.xbar.routedPktList, i - 1) ELSE None]
  IN IF At(S.xbar.get_queues, outPort) = <<>> THEN S
     ELSE LET previous == At(S.xbar.lastport, outPort)
              S1 == arbitratePkts(S, pktList, outPort)
              S2 == postDecisionMsg(S1, S1.chosen)
          IN IF S1.err # "" THEN S1
             ELSE IF S2.err # "" THEN S2
             ELSE Transfer(S2, outPort, pktList, S2.chosen, previous)

\* Crossbar._do_get, the callback of an arbitration event
Crossbar_do_get(S, arbitrateEvent) ==
  LET outPort == S.events[arbitrateEvent].item
      pktList == [i \in 1..S.xbar.inPorts |->
                    IF /\ At(S.xbar.routes, i - 1) = outPort
                       /\ Triggered(S, At(S.xbar.unMaskEvents, i - 1))
                    THEN At(S.xbar.routedPktList, i - 1) ELSE None]
  IN IF At(S.xbar.get_queues, outPort) = <<>> THEN S
     ELSE IF \E i \in 1..Len(pktList) : pktList[i] # None
     THEN LET previous == At(S.xbar.lastport, outPort)
              S1 == arbitratePkts(S, pktList, outPort)
              S2 == postDecisionMsg(S1, S1.chosen)
          IN IF S1.err # "" THEN S1
             ELSE IF S2.err # "" THEN S2
             ELSE Transfer(S2, outPort, pktList, S2.chosen, previous)
     ELSE LET S1 == Log(S, FATAL_ERROR)
          IN IF S1.err # "" THEN S1
             ELSE Raise(S1, "UnboundLocalError: chosenPort")

\* _cleanup without its last loop: the other inputs are not offered again.
LosersLoopSkipped(S, outPort, activatedInPort, p) == S

\* the last loop of _cleanup: the other inputs routed to outPort, from p
RECURSIVE LosersLoop(_, _, _, _)
LosersLoop(S, outPort, activatedInPort, p) ==
  IF p >= S.xbar.inPorts \/ S.err # "" THEN S
  ELSE IF At(S.xbar.routes, p) = outPort /\ p # activatedInPort
  THEN LosersLoop(postPeekProcessing(S, At(S.xbar.peekEvents, p)),
                  outPort, activatedInPort, p + 1)
  ELSE LosersLoop(S, outPort, activatedInPort, p + 1)

\* Crossbar._cleanup that leaves the route and the routed packet of the
\* served input in place.
CleanupKeepsRoute(S, cleanupEvent) ==
  LET outPort == S.events[cleanupEvent].item
      act == S.events[cleanupEvent].value
      S1 == IF act = At(S.xbar.lastport, outPort) THEN Log(S, DEBUG) ELSE S
      S2 == [S1 EXCEPT !.xbar.unMaskEvents = SetAt(@, act, NoEvent),
                       !.xbar.arbEvents = SetAt(@, outPort, NoEvent)]
      S3 == toUpName(S2, act)
      pe == NewId(S3, "UpPeek")
      S4 == [Up_peek(Log(S3, DEBUG), act) EXCEPT
               !.xbar.peekEvents = SetAt(@, act, pe)]
      S5 == IF Triggered(S4, pe) THEN postPeekProcessing(S4, pe)
            ELSE AddCallbacks(S4, pe, <<"Crossbar._postPeekProcessing">>)
  IN IF S3.err # "" THEN S3
     ELSE LosersLoop(S5, outPort, act, 0)

\* Crossbar._cleanup, the callback of a cleanup event
cleanup(S, cleanupEvent) ==
  LET outPort == S.events[cleanupEvent].item
      act == S.events[cleanupEvent].value
      S1 == IF act = At(S.xbar.lastport, outPort) THEN Log(S, DEBUG) ELSE S
      S2 == [S1 EXCEPT !.xbar.routes = SetAt(@, act, NonePort),
                       !.xbar.routedPktList = SetAt(@, act, None),
                       !.xbar.unMaskEvents = SetAt(@, act, NoEvent),
                       !.xbar.arbEvents = SetAt(@, outPort, NoEvent)]
      S3 == toUpName(S2, act)
      pe == NewId(S3, "UpPeek")
      S4 == [Up_peek(Log(S3, DEBUG), act) EXCEPT
               !.xbar.peekEvents = SetAt(@, act, pe)]
      S5 == IF Triggered(S4, pe) THEN postPeekProcessing(S4, pe)
            ELSE AddCallbacks(S4, pe, <<"Crossbar._postPeekProcessing">>)
  IN IF S3.err # "" THEN S3
     ELSE LosersLoop(S5, outPort, act, 0)

\* Crossbar.get(outPort): CrossbarGet.__init__
CrossbarGet(S, outPort) ==
  LET g  == NewId(S, "CrossbarGet")
      S1 == [NewEvent(S, "CrossbarGet", outPort) EXCEPT
               !.xbar.get_queues = SetAt(@, outPort, Append(At(@, outPort), g))]
      S2 == Log(S1, DEBUG)
      unMaskedInPorts ==
        SelectSeq([i \in 1..S.xbar.inPorts |-> i - 1],
                  LAMBDA p : /\ At(S.xbar.routes, p) = outPort
                             /\ Triggered(S, At(S.xbar.unMaskEvents, p)))
  IN IF unMaskedInPorts # <<>>
     THEN schedule_arbitration(S2, At(S2.xbar.unMaskEvents, unMaskedInPorts[1]))
     ELSE S2

\* run_init: the peeks onto all inputs, from port i
RECURSIVE PeekAll(_, _)
PeekAll(S, i) ==
  IF i >= S.xbar.inPorts THEN S
  ELSE LET pe == NewId(S, "UpPeek")
       IN PeekAll([Up_peek(S, i) EXCEPT !.xbar.peekEvents = SetAt(@, i, pe)],
                  i + 1)

\* run_init: the loop over the peek events, from port i
RECURSIVE PeekedLoop(_, _)
PeekedLoop(S, i) ==
  IF i >= S.xbar.inPorts \/ S.err # "" THEN S
  ELSE LET pe == At(S.xbar.peekEvents, i)
       IN PeekedLoop(
            IF Triggered(S, pe) THEN postPeekProcessing(route(S, pe), pe)
            ELSE AddCallbacks(S, pe, <<"Crossbar._postPeekProcessing">>),
            i + 1)

\* Crossbar.run_init
run_init(S) == PeekedLoop(PeekAll([S EXCEPT !.xbar.started = TRUE], 0), 0)

\* ----------------------------------------------------- ConcurrentAllOf
\* the ConcurrentAllOf event of a run
AllOf == <<"ConcurrentAllOf", 1>>

\* ConcurrentAllOf._check that stops at the first triggered member.
CheckAnyOf(S) ==
  LET list == S.eventList
      S1 == [S EXCEPT !.hist.checks = @ + 1]
  IN IF \A i \in 1..Len(list) : ~Triggered(S, list[i])
     THEN IF list = <<>> THEN Succeed(S1, AllOf, None, 0)
          ELSE AddCallbacks(S1, list[1], <<"ConcurrentAllOf._check">>)
     ELSE Succeed(S1, AllOf, None, 0)

\* ConcurrentAllOf._check
check(S) ==
  LET list == S.eventList
      pend == {i \in 1..Len(list) : ~Triggered(S, list[i])}
      S1 == [S EXCEPT !.hist.checks = @ + 1]
  IN IF pend # {}
     THEN LET e == CHOOSE i \in pend : \A j \in pend : i <= j
          IN AddCallbacks(S1, list[e], <<"ConcurrentAllOf._check">>)
     ELSE Succeed(S1, AllOf, None, 0)

\* ConcurrentAllOf.__init__
ConcurrentAllOf(S, list) ==
  check([NewEvent(S, "ConcurrentAllOf", None) EXCEPT !.eventList = list])

\* ------------------------------------------------------ request queues
\* the list a trigger loop walks
QueueOf(S, q) ==
  CASE q = "put_queue" -> S.put_queue
    [] q = "get_queue" -> S.get_queue
    [] q = "peek_queue" -> S.peek_queue
    [] q = "pipe_put_queue" -> S.pipe_put_queue
    [] q = "credit_put_queue" -> S.credit_put_queue
    [] q = "credit_get_queue" -> S.credit_get_queue
    [] q = "credit_peek_queue" -> S.credit_peek_queue

WithQueue(S, q, v) ==
  CASE q = "put_queue" -> [S EXCEPT !.put_queue = v]
    [] q = "get_queue" -> [S EXCEPT !.get_queue = v]
    [] q = "peek_queue" -> [S EXCEPT !.peek_queue = v]
    [] q = "pipe_put_queue" -> [S EXCEPT !.pipe_put_queue = v]
    [] q = "credit_put_queue" -> [S EXCEPT !.credit_put_queue = v]
    [] q = "credit_get_queue" -> [S EXCEPT !.credit_get_queue = v]
    [] q = "credit_peek_queue" -> [S EXCEPT !.credit_peek_queue = v]

\* the _do_put / _do_get / _do_peek hook of the resource that owns queue q
Do(S, q, e) ==
  CASE q = "put_queue" -> Buffer_do_put(S, e)
    [] q = "get_queue" -> Buffer_do_get(S, e)
    [] q = "peek_queue" -> Buffer_do_peek(S, e)
    [] q = "pipe_put_queue" -> Pipeline_do_put(S, e)
    [] q = "credit_put_queue" -> Store_do_put(S, e)
    [] q = "credit_get_queue" -> Store_do_get(S, e)
    [] q = "credit_peek_queue" -> CreditBuffer_do_peek(S, e)

\* The trigger loop going on to the next request after one it left pending.
RECURSIVE TriggerSkipsAhead(_, _, _)
TriggerSkipsAhead(S, q, idx) ==
  IF S.err # "" \/ idx >= Len(QueueOf(S, q)) THEN S
  ELSE LET e  == QueueOf(S, q)[idx + 1]
           S1 == Do(S, q, e)
       IN IF S1.err # "" THEN S1
          ELSE IF ~Triggered(S1, e)
          THEN TriggerSkipsAhead(S1, q, idx + 1)
          ELSE TriggerSkipsAhead(
                 WithQueue(S1, q, RemoveAt(QueueOf(S1, q), idx + 1)), q, idx)

\* The trigger loop leaving a resolved request in its queue.
RECURSIVE TriggerKeepsResolved(_, _, _)
TriggerKeepsResolved(S, q, idx) ==
  IF S.err # "" \/ idx >= Len(QueueOf(S, q)) THEN S
  ELSE LET e  == QueueOf(S, q)[idx + 1]
           S1 == Do(S, q, e)
       IN IF S1.err # "" THEN S1
          ELSE IF S1.ret THEN TriggerKeepsResolved(S1, q, idx + 1) ELSE S1

\* _trigger_put / _trigger_get / _trigger_peek of BaseResource, Buffer,
\* CreditBuffer and Pipeline: the same loop over the queue q, from idx.
Trigger(S, q, idx) ==
  IF S.err # "" \/ idx >= Len(QueueOf(S, q)) THEN S
  ELSE LET e  == QueueOf(S, q)[idx + 1]
           S1 == Do(S, q, e)
           proceed == S1.ret
       IN IF S1.err # "" THEN S1
          ELSE IF ~Triggered(S1, e)
          THEN IF proceed THEN Trigger(S1, q, idx + 1) ELSE S1
          ELSE IF QueueOf(S1, q)[idx + 1] # e
          THEN Raise(WithQueue(S1, q, RemoveAt(QueueOf(S1, q), idx + 1)),
                     "RuntimeError: queue invariant violated")
          ELSE LET S2 == WithQueue(S1, q, RemoveAt(QueueOf(S1, q), idx + 1))
               IN IF proceed THEN Trigger(S2, q, idx) ELSE S2

\* request.cancel() that removes the oldest request of the queue.
CancelRemovesHead(S, q, e) ==
  IF ~Triggered(S, e)
  THEN IF QueueOf(S, q) # <<>>
       THEN WithQueue(S, q, Tail(QueueOf(S, q)))
       ELSE Raise(S, "ValueError: list.remove(x): x not in list")
  ELSE S

\* request.cancel() of BufferPut, BufferGet, BufferPeek, PipelinePut
cancel(S, q, e) ==
  IF ~Triggered(S, e)
  THEN IF InSeq(e, QueueOf(S, q))
       THEN WithQueue(S, q, RemoveAt(QueueOf(S, q), IndexOf(e, QueueOf(S, q))))
       ELSE Raise(S, "ValueError: list.remove(x): x not in list")
  ELSE S

\* ------------------------------------------------------------ scheduler
\* one bound method, called with the event that is being processed
Call(S, cb, e) ==
  CASE cb = "Buffer._insert_packet" -> insert_packet(S, e)
    [] cb = "Buffer._remove_packet" -> remove_packet(S, e)
    [] cb = "Buffer._trigger_put" -> Trigger(S, "put_queue", 0)
    [] cb = "Buffer._trigger_get" -> Trigger(S, "get_queue", 0)
    [] cb = "Buffer._trigger_peek" -> Trigger(S, "peek_queue", 0)
    [] cb = "CreditBuffer._trigger_put" -> Trigger(S, "credit_put_queue", 0)
    [] cb = "CreditBuffer._trigger_get" -> Trigger(S, "credit_get_queue", 0)
    [] cb = "CreditBuffer._trigger_peek" -> Trigger(S, "credit_peek_queue", 0)
    [] cb = "Pipeline._increment_credit" -> increment_credit(S)
    [] cb = "Pipeline._trigger_put" -> Trigger(S, "pipe_put_queue", 0)
    [] cb = "Pipeline._putReady" -> putReady(S)
    [] cb = "_putdelay.start" -> putdelay_start(S, e)
    [] cb = "_putdelay.put" -> putdelay_put(S, e)
    [] cb = "Upstream._remove_packet" -> Up_remove_packet(S, e)
    [] cb = "Crossbar._postPeekProcessing" -> postPeekProcessing(S, e)
    [] cb = "Crossbar._schedule_arbitration" -> schedule_arbitration(S, e)
    [] cb = "Crossbar._do_get" -> Crossbar_do_get(S, e)
    [] cb = "Crossbar._cleanup" -> cleanup(S, e)
    [] cb = "ConcurrentAllOf._check" -> check(S)
    [] cb = "observer" -> [S EXCEPT !.hist.fired = Append(@, [ev |-> e, time |-> S.now])]

RECURSIVE RunCallbacks(_, _, _)
RunCallbacks(S, cbs, e) ==
  IF cbs = <<>> \/ S.err # "" THEN S
  ELSE RunCallbacks(Call(S, Head(cbs), e), Tail(cbs), e)

\* Environment.step: pop the next event and call its callbacks in order
step(S) ==
  LET ent == Head(S.queue)
      e   == ent.ev
      S1  == [S EXCEPT !.now = ent.time, !.queue = Tail(@),
                       !.popped = @ + 1,
                       !.events[e].callbacks = <<>>,
                       !.events[e].processed = TRUE]
  IN RunCallbacks(S1, S.events[e].callbacks, e)


\* ------------------------------------------------------ initial states
EnvInit ==
  /\ now = 0 /\ queue = <<>> /\ events = <<>> /\ err = "" /\ packets = <<>>
  /\ hist = [accepted |-> <<>>, granted |-> <<>>, removed |-> <<>>,
             dispatched |-> 0, spurious |-> 0, piped |-> <<>>,
             fired |-> <<>>, cancelled |-> <<>>, checks |-> 0,
             served |-> <<>>, stale |-> 0]
  /\ eventList = <<>> /\ popped = 0

\* Buffer.__init__
BufferInit ==
  /\ items = <<>> /\ put_queue = <<>> /\ get_queue = <<>> /\ peek_queue = <<>>
  /\ putDebt = 0 /\ getDebt = 0

NoBuffer ==
  /\ cls = "" /\ capacity = 0 /\ putDelay = 0 /\ getDelay = 0 /\ BufferInit

\* Pipeline.__init__ and, with credits, CreditBuffer.__init__
PipelineInit ==
  /\ pipe_put_queue = <<>> /\ putBusy = FALSE /\ pipePutDebt = 0
  /\ credit_items = [i \in 1..initCredits |-> 1]
  /\ credit_put_queue = <<>> /\ credit_get_queue = <<>>
  /\ credit_peek_queue = <<>>

NoPipeline ==
  /\ pipeCls = "" /\ depth = 0 /\ initCredits = 0 /\ PipelineInit

\* the events of class c created so far
EventsOf(c) == {e \in DOMAIN events : e[1] = c}

\* the requests made by user processes (a pipeline's puts into its
\* downstream buffer are made by the pipeline)
UserRequests ==
  IF pipeCls = ""
  THEN EventsOf("BufferPut") \cup EventsOf("BufferGet") \cup EventsOf("BufferPeek")
  ELSE EventsOf("PipelinePut") \cup EventsOf("BufferGet")
       \cup EventsOf("BufferPeek") \cup EventsOf("CreditPeek")

UserCalls ==
  Cardinality(UserRequests) + Len(hist.cancelled) + hist.spurious

\* a user process may make one more call
MayCall == err = "" /\ UserCalls < (IF pipeCls = "" THEN MaxCalls ELSE MaxPipeCalls)

Running == err = ""

\* ----------------------------------------------------- SpecEv: NewEvent
InitEv == EnvInit /\ NoBuffer /\ NoPipeline /\ NoXbar

\* a user process creates an event and registers a callback on it
EvCreate ==
  /\ Cardinality(DOMAIN events) < MaxEvents
  /\ LET S1 == NewEvent([State EXCEPT !.err = ""], "NewEvent", None)
     IN SetState(AddCallbacks(S1, NewId(State, "NewEvent"), <<"observer">>))

\* a user process calls succeed(value, delay) on any event it holds
EvSucceed ==
  \E e \in DOMAIN events, v \in 0..MaxValue, d \in 0..MaxDelay :
    SetState(Succeed([State EXCEPT !.err = ""], e, v, d))

EvStep ==
  /\ queue # <<>>
  /\ SetState(step([State EXCEPT !.err = ""]))

NextEv == EvCreate \/ EvSucceed \/ EvStep

SpecEv == InitEv /\ [][NextEv]_vars

\* ------------------------------------------------------ SpecBuf: Buffer
InitBuf ==
  /\ EnvInit /\ NoPipeline /\ BufferInit /\ NoXbar
  /\ cls \in {"Buffer", "StoreAndForwardBuffer"}
  /\ capacity \in 1..MaxCap
  /\ putDelay \in Delays
  /\ getDelay \in Delays

\* a user process calls buffer.put(pkt) with a new packet
Put ==
  /\ MayCall
  /\ \E ticks \in Ticks, debt \in {0} :
       SetState(Buffer_put(
         [State EXCEPT !.packets = Append(@, [ticks |-> ticks, debt |-> debt])],
         Len(packets) + 1))

\* a user process calls buffer.get()
Get ==
  /\ MayCall
  /\ SetState(Buffer_get(State))

\* a user process calls buffer.peek()
Peek ==
  /\ MayCall
  /\ SetState(Buffer_peek(State))

\* the queue a request of the buffer waits in
QueueName(e) ==
  CASE e[1] = "BufferPut" -> "put_queue"
    [] e[1] = "BufferGet" -> "get_queue"
    [] e[1] = "BufferPeek" -> "peek_queue"
    [] e[1] = "PipelinePut" -> "pipe_put_queue"
    [] e[1] = "CreditPeek" -> "credit_peek_queue"
    [] e[1] = "StorePut" -> "credit_put_queue"
    [] e[1] = "StoreGet" -> "credit_get_queue"

\* a user process calls cancel() on a request it made
Cancel ==
  /\ MayCall
  /\ \E e \in UserRequests :
       SetState(cancel([State EXCEPT !.hist.cancelled = Append(@, e)],
                       QueueName(e), e))

\* the event loop processes the next event
Step ==
  /\ Running /\ queue # <<>>
  /\ SetState(step(State))

NextBuf == Put \/ Get \/ Peek \/ Cancel \/ Step

SpecBuf == InitBuf /\ [][NextBuf]_vars

\* ------------------------- SpecFC: a pipeline feeding a buffer (testFC.py)
\* TestFlowControl.__init__: a FlowControlledPipeline connected to a
\* FlowControlledBuffer of capacity initCredits with putDelay 0; also a
\* plain Pipeline connected to a Buffer.
InitFC ==
  /\ EnvInit /\ BufferInit /\ NoXbar
  /\ pipeCls \in {"Pipeline", "FlowControlledPipeline"}
  /\ cls = IF pipeCls = "Pipeline" THEN "Buffer" ELSE "FlowControlledBuffer"
  /\ initCredits \in IF pipeCls = "Pipeline" THEN {0} ELSE 1..MaxCap
  /\ PipelineInit
  /\ capacity \in IF pipeCls = "Pipeline" THEN 1..MaxCap ELSE {initCredits}
  /\ depth \in Delays
  /\ putDelay = 0
  /\ getDelay \in Delays

\* a user process calls pipe.put(pkt) with a new packet
PipePut ==
  /\ MayCall
  /\ \E ticks \in Ticks, debt \in {0} :
       SetState(Pipeline_put(
         [State EXCEPT !.packets = Append(@, [ticks |-> ticks, debt |-> debt])],
         Len(packets) + 1))

\* a user process calls pipe.CreditBuffer.peek(thresh); waitForCredit() is
\* the call with thresh = 1
CreditPeek ==
  /\ MayCall
  /\ pipeCls = "FlowControlledPipeline"
  /\ \E thresh \in 1..initCredits : SetState(CreditBuffer_peek(State, thresh))

NextFC == PipePut \/ Get \/ Peek \/ CreditPeek \/ Cancel \/ Step

SpecFC == InitFC /\ [][NextFC]_vars

\* ------------- SpecCredit: credits also returned by a user process
InitCredit == InitFC /\ pipeCls = "FlowControlledPipeline"

\* a user process calls pipe.putCredit()
ExtPutCredit ==
  /\ MayCall
  /\ SetState(putCredit([State EXCEPT !.hist.spurious = @ + 1]))

NextCredit == PipePut \/ Get \/ CreditPeek \/ Step \/ ExtPutCredit

SpecCredit == InitCredit /\ [][NextCredit]_vars

\* ------- SpecPipe: a pipeline feeding a buffer, packets with remainders
\* getTicks of a user's packet class may return a remainder (debt) in [0,1)
\* (nothing is taken out of the buffer in these runs)
InitPipe == InitFC /\ getDelay = 0

\* a user process calls pipe.put(pkt) with a new packet
RemPut ==
  /\ err = "" /\ Cardinality(EventsOf("PipelinePut")) < MaxPuts
  /\ \E ticks \in Ticks, debt \in 0..(DebtDen - 1) :
       SetState(Pipeline_put(
         [State EXCEPT !.packets = Append(@, [ticks |-> ticks, debt |-> debt])],
         Len(packets) + 1))

NextPipe == RemPut \/ Step

SpecPipe == InitPipe /\ [][NextPipe]_vars

\* ------------- SpecRem: a buffer, packets with remainders, puts and gets
InitRem == InitBuf /\ cls = "Buffer" /\ putDelay = 0

\* a user process calls buffer.put(pkt) with a new packet
PutRem ==
  /\ MayCall
  /\ \E ticks \in Ticks, debt \in 0..(DebtDen - 1) :
       SetState(Buffer_put(
         [State EXCEPT !.packets = Append(@, [ticks |-> ticks, debt |-> debt])],
         Len(packets) + 1))

NextRem == PutRem \/ Get \/ Step

SpecRem == InitRem /\ [][NextRem]_vars

\* ------------------------------ SpecAllOf: one ConcurrentAllOf event
InitAllOf == EnvInit /\ NoBuffer /\ NoPipeline /\ NoXbar

Members == EventsOf("NewEvent")

\* a user process creates an event
AoCreate ==
  /\ err = "" /\ Cardinality(Members) < MaxMembers
  /\ SetState(NewEvent(State, "NewEvent", None))

\* a user process creates ConcurrentAllOf(env, eventList)
AoConstruct ==
  /\ err = "" /\ AllOf \notin DOMAIN events
  /\ \E n \in 0..MaxList : \E list \in [1..n -> Members] :
       SetState(ConcurrentAllOf(State, list))

\* a user process succeeds one of its events
AoSucceed ==
  /\ err = ""
  /\ \E e \in Members :
       /\ ~Triggered(State, e)
       /\ SetState(Succeed(State, e, None, 0))

\* a user process replaces an event of the list it handed over
AoReplace ==
  /\ err = "" /\ AllOf \in DOMAIN events /\ hist.spurious < MaxReplace
  /\ \E i \in 1..Len(eventList), e \in Members :
       /\ e # eventList[i]
       /\ SetState([State EXCEPT
            !.eventList[i] = e, !.hist.spurious = @ + 1,
            !.hist.stale = @ + (IF Triggered(State, e) THEN 1 ELSE 0)])

NextAllOf == AoCreate \/ AoConstruct \/ AoSucceed \/ AoReplace \/ Step

SpecAllOf == InitAllOf /\ [][NextAllOf]_vars

\* ------------------------------------- SpecArb: the arbitration policies
XbarClasses ==
  {"Crossbar", "RoundRobinCrossbar", "WeightedRoundRobinCrossbar",
   "FixedPriorityCrossbar"}

\* the weights=[...] arguments tried
WeightLists == {<<2>>, <<3, 1>>, <<1, 2>>, <<2, 1, 2>>, <<1, 2, 1, 1>>}

\* weights=[...] arguments with a weight of 0
ZeroWeightLists == {<<0>>, <<1, 0>>}

\* the priorities=[...] arguments tried (<<>>: priorities=None)
PriorityLists == {<<>>, <<0, 1>>, <<1, 0>>, <<1, 0, 1>>, <<0, 2, 1, 2>>}

Ports == 0..(xbar.inPorts - 1)

InitArb == EnvInit /\ NoBuffer /\ NoPipeline /\ NoXbar

\* a crossbar is constructed; the set of inputs that offer a packet is chosen
Construct ==
  /\ xbar.cls = "" /\ err = ""
  /\ \E c \in XbarClasses, n \in 1..MaxPorts :
       \E w \in (IF c = "WeightedRoundRobinCrossbar"
                 THEN WeightLists \cup ZeroWeightLists ELSE {<<>>}),
          p \in (IF c = "FixedPriorityCrossbar"
                 THEN {l \in PriorityLists : l = <<>> \/ Len(l) = n} ELSE {<<>>}),
          C \in SUBSET (0..(n - 1)) :
         SetState([Crossbar_init(State, c, n, w, p) EXCEPT
                     !.arb.cands = C, !.arb.start = -1])

\* the candidate list _do_get builds when the inputs of C are unmasked
PktListOf(C) == [i \in 1..xbar.inPorts |-> IF (i - 1) \in C THEN 1 ELSE None]

\* one call of arbitratePkts with the inputs that offer a packet
ArbRound ==
  /\ xbar.cls # "" /\ err = "" /\ arb.calls < MaxRounds
  /\ \E r \in Ports :
       LET S1 == arbitratePkts([State EXCEPT !.rnd = r], PktListOf(arb.cands), 0)
           served == S1.err = "" /\ S1.chosen # NonePort
       IN SetState([S1 EXCEPT
            !.arb.calls = @ + 1,
            !.arb.wins = IF served THEN Append(@, S1.chosen) ELSE @,
            !.arb.last = [cands |-> arb.cands, result |-> S1.chosen,
                          ok |-> S1.err = ""]])

\* the set of inputs that offer a packet changes
ChangeCands ==
  /\ xbar.cls # "" /\ err = "" /\ arb.calls < MaxRounds
  /\ \E C \in SUBSET Ports :
       /\ C # arb.cands
       /\ SetState([State EXCEPT
            !.arb.cands = C, !.arb.changed = TRUE, !.arb.wins = <<>>,
            !.arb.start = At(xbar.lastport, 0)])

NextArb == Construct \/ ArbRound \/ ChangeCands

SpecArb == InitArb /\ [][NextArb]_vars

\* -------------------- SpecXbar: a crossbar in pull mode between buffers
InitXbar == EnvInit /\ NoBuffer /\ NoPipeline /\ NoXbar

\* a crossbar with a valid configuration is constructed and connected to
\* one upstream buffer per input port
XConstruct ==
  /\ xbar.cls = "" /\ err = ""
  /\ \E c \in XbarClasses, n \in 1..MaxXPorts, pre \in Delays,
        post \in Ticks, m \in BOOLEAN :
       \E w \in (IF c = "WeightedRoundRobinCrossbar"
                 THEN {l \in WeightLists : Len(l) = n} ELSE {<<>>}),
          p \in (IF c = "FixedPriorityCrossbar"
                 THEN {l \in PriorityLists : Len(l) = n} ELSE {<<>>}) :
         SetState([Crossbar_init(State, c, n, w, p) EXCEPT
                     !.xbar.upPre = pre, !.xbar.upPost = post,
                     !.xbar.masked = m])

\* what the processes around the crossbar have done so far
XCalls ==
  arb.offered + Cardinality(EventsOf("CrossbarGet")) + Cardinality(arb.declined)

\* the crossbar's process starts: run() calls run_init()
XbarRun ==
  /\ xbar.cls # "" /\ ~xbar.started /\ err = ""
  /\ SetState(run_init(State))

\* a packet arrives in the upstream buffer of input port i; all packets
\* of a run have the same length
Offer ==
  /\ xbar.started /\ err = "" /\ XCalls < MaxXCalls
  /\ \E i \in Ports :
       SetState(Up_put(
         [State EXCEPT !.packets = Append(@, [ticks |-> xbar.upPost, debt |-> 0]),
                       !.arb.offered = @ + 1],
         i, Len(packets) + 1))

\* a downstream process calls xbar.get(0)
XGet ==
  /\ xbar.started /\ err = "" /\ XCalls < MaxXCalls
  /\ SetState(CrossbarGet(State, 0))

\* a user process triggers the unmask event of a routed input
UnMask ==
  /\ xbar.started /\ err = ""
  /\ \E i \in Ports :
       /\ At(xbar.unMaskEvents, i) # NoEvent
       /\ ~Triggered(State, At(xbar.unMaskEvents, i))
       /\ SetState(Succeed(State, At(xbar.unMaskEvents, i), None, 0))

\* the event loop processes the next event; the step draws what
\* random.choice returns and whether a user-supplied upstream declines a get
XStep ==
  /\ Running /\ queue # <<>>
  /\ \E r \in Ports, d \in BOOLEAN :
       /\ d => XCalls < MaxXCalls
       /\ \E T \in {step([State EXCEPT !.rnd = r, !.declines = d])} :
            SetState(T)

NextXbar == XConstruct \/ XbarRun \/ Offer \/ XGet \/ UnMask \/ XStep

SpecXbar == InitXbar /\ [][NextXbar]_vars

\* ---- SpecXbarLoaded: a crossbar started between buffers that hold packets
\* a crossbar with two or more inputs and the unMask of the class is
\* constructed and connected to upstream buffers that hold one packet each
\* before the run starts
XConstructLoaded ==
  /\ xbar.cls = "" /\ err = ""
  /\ \E c \in XbarClasses, n \in 2..MaxXPorts, pre \in Delays, post \in Ticks :
       \E w \in (IF c = "WeightedRoundRobinCrossbar"
                 THEN {l \in WeightLists : Len(l) = n} ELSE {<<>>}),
          p \in (IF c = "FixedPriorityCrossbar"
                 THEN {l \in PriorityLists : Len(l) = n} ELSE {<<>>}) :
         SetState([Crossbar_init(State, c, n, w, p) EXCEPT
                     !.xbar.upPre = pre, !.xbar.upPost = post,
                     !.xbar.up = [i \in 1..n |-> <<i>>],
                     !.packets = [i \in 1..n |-> [ticks |-> post, debt |-> 0]]])

NextXbarLoaded == XConstructLoaded \/ XbarRun \/ Offer \/ XGet \/ XStep

SpecXbarLoaded == InitXbar /\ [][NextXbarLoaded]_vars

\* The event loop of env.run() pops the next event whenever one is queued
\* and the run has not ended: weak fairness of the loop's step.  XStep is the
\* only action that changes popped, and it adds one to it, so the steps of
\* Pop that change popped are the steps of XStep.
Pop == Running /\ queue # <<>> /\ popped' = popped + 1

SpecXbarLive == SpecXbar /\ WF_popped(Pop)

\* ------------------------------------------------------------ sanity
\* The only exceptions a run ends with
ErrOK ==
  err \in {"", "IndexError: pop from empty list",
           "ValueError: list.remove(x): x not in list",
           "RuntimeError: has already been triggered"}

Spec == SpecBuf

\* ======================================================= the claims
RequestClasses ==
  {"BufferPut", "BufferGet", "BufferPeek", "PipelinePut", "CreditPeek",
   "StorePut", "StoreGet"}

RequestQueues ==
  {"put_queue", "get_queue", "peek_queue", "pipe_put_queue",
   "credit_put_queue", "credit_get_queue", "credit_peek_queue"}

IsPending(e) == events[e].value = PENDING

\* e is resolved by the step: pending (or not yet created) before, triggered after
ResolvedByStep(e) ==
  /\ e \in DOMAIN events' /\ events'[e].value # PENDING
  /\ e \in DOMAIN events => events[e].value = PENDING

\* the requests enqueued before e in its queue, as the step finds them
Ahead(e) ==
  LET qu == QueueOf(State, QueueName(e))
  IN IF InSeq(e, qu) THEN {qu[i] : i \in 1..(IndexOf(e, qu) - 1)}
     ELSE {qu[i] : i \in 1..Len(qu)}

\* C1: head-of-line discipline.  In every step, a request of any queue
\* (Buffer put/get/peek, Pipeline put, CreditBuffer put/get/peek) that the
\* step resolves has no request enqueued before it in the same queue that
\* the step leaves pending.
C1_HeadOfLine ==
  [][\A e \in DOMAIN events' :
       (e[1] \in RequestClasses /\ ResolvedByStep(e))
         => \A x \in Ahead(e) : events'[x].value # PENDING]_vars

\* C1 witness: a credit peek that could be served on its own is kept
\* waiting behind an earlier peek whose threshold is not met.
C1_Witness ==
  \E i, j \in 1..Len(credit_peek_queue) :
    /\ i < j
    /\ ~(Len(credit_items) > events[credit_peek_queue[i]].item)
    /\ Len(credit_items) > events[credit_peek_queue[j]].item

\* C2: queue invariant.  Between two steps, every request in a put_queue,
\* get_queue or peek_queue of any resource is pending.
C2_QueueInvariant ==
  \A q \in RequestQueues :
    \A i \in 1..Len(QueueOf(State, q)) : IsPending(QueueOf(State, q)[i])

\* C2 witness: a pipeline put was resolved (and removed) while another put
\* still waits in the queue.
C2_Witness ==
  /\ pipe_put_queue # <<>>
  /\ \E e \in EventsOf("PipelinePut") : ~IsPending(e)

\* C3 (as claimed): the number of stored items is between 0 and capacity.
C3_Occupancy == Len(items) <= capacity

\* C4: a put is accepted only while fewer than capacity items are stored
\* and a get is granted only while an item is stored; a put requested
\* while the buffer holds capacity items, and a get requested while it is
\* empty, stay pending in their queues.
C4_NoAcceptWhenFull ==
  [][/\ \A i \in 1..Len(hist.accepted') : hist.accepted'[i].occ < capacity
     /\ \A i \in 1..Len(hist.granted') : hist.granted'[i].occ > 0
     /\ \A e \in EventsOf("BufferPut")' \ EventsOf("BufferPut") :
          Len(items) = capacity
            => events'[e].value = PENDING /\ InSeq(e, put_queue')
     /\ \A e \in EventsOf("BufferGet")' \ EventsOf("BufferGet") :
          items = <<>>
            => events'[e].value = PENDING /\ InSeq(e, get_queue')]_vars

\* C4 witness: a full buffer with a put waiting, after a put was accepted
\* and a get was granted.
C4_Witness ==
  /\ Len(items) = capacity /\ put_queue # <<>>
  /\ hist.accepted # <<>> /\ hist.granted # <<>>

\* C5 (as claimed): while the buffer holds an item no peek is waiting.
C5_PeekResolves == items # <<>> => peek_queue = <<>>

\* C6: the credit count stays between 0 and initCredits.
C6_CreditBounds ==
  pipeCls = "FlowControlledPipeline"
    => Len(credit_items) >= 0 /\ Len(credit_items) <= initCredits

\* C6 witness: credits were consumed and returned, and the counter is back
\* at initCredits.
C6_Witness ==
  /\ \E e \in EventsOf("StoreGet") : ~IsPending(e)
  /\ \E e \in EventsOf("StorePut") : ~IsPending(e)
  /\ Len(credit_items) = initCredits

\* C7 (as claimed): a credit peek with threshold t issued on an empty peek
\* queue while the credit count is exactly t is resolved by that call.
C7_PeekAtThreshold ==
  [][\A e \in EventsOf("CreditPeek")' \ EventsOf("CreditPeek") :
       (credit_peek_queue = <<>> /\ events'[e].item = Len(credit_items))
         => events'[e].value # PENDING]_vars

\* the puts the pipeline accepted whose credit is not back in the counter
InFlight ==
  Cardinality({e \in EventsOf("PipelinePut") : ~IsPending(e)})
  - Cardinality({e \in EventsOf("StorePut") : ~IsPending(e)})

\* C8: a flow controlled pipeline never has more than initCredits items
\* in flight.
C8_InFlightBound ==
  pipeCls = "FlowControlledPipeline" => InFlight <= initCredits

\* C8 witness: initCredits items are in flight and a further put waits
\* for a credit.
C8_Witness ==
  /\ pipeCls = "FlowControlledPipeline"
  /\ InFlight = initCredits /\ pipe_put_queue # <<>>

\* the packets written into the buffer (putDelay is 0: a put is inserted
\* when it is accepted)
Inserted == Cardinality({e \in EventsOf("BufferPut") : ~IsPending(e)})

\* C9: the number of credits the flow controlled buffer dispatched equals
\* the number of items removed from it.
C9_OneCreditPerRemoval ==
  cls = "FlowControlledBuffer"
    => /\ Cardinality(EventsOf("putCreditEvent")) = Inserted - Len(items)
       /\ hist.dispatched = Len(hist.removed)
       /\ Len(hist.removed) = Inserted - Len(items)

\* C9 witness: one item has left the flow controlled buffer, its credit is
\* dispatched, and another item is still stored.
C9_Witness ==
  /\ cls = "FlowControlledBuffer"
  /\ Len(hist.removed) = 1 /\ Len(items) = 1
  /\ EventsOf("putCreditEvent") # {}

\* the queue entries of event e
EntriesOf(qu, e) == {i \in 1..Len(qu) : qu[i].ev = e}

\* C10: succeed on an event that is already triggered raises an error and
\* changes neither the value of the event nor its scheduled firing; a
\* triggered event is scheduled exactly once until it is processed.
C10_SucceedOnce ==
  [][/\ \A e \in DOMAIN events :
          events[e].value # PENDING
            => /\ events'[e].value = events[e].value
               /\ \A v \in 0..MaxValue, d \in 0..MaxDelay :
                    LET R == Succeed(State, e, v, d)
                    IN R.err # "" /\ R.events = events /\ R.queue = queue
               /\ \A i \in EntriesOf(queue, e) :
                    \/ i = 1 /\ events'[e].processed
                    \/ \E j \in EntriesOf(queue', e) : queue'[j] = queue[i]
     /\ err' # "" => events' = events /\ queue' = queue /\ now' = now
     /\ \A e \in DOMAIN events' :
          events'[e].value # PENDING /\ ~events'[e].processed
            => Cardinality(EntriesOf(queue', e)) = 1]_vars

\* C10 witness: a second succeed was refused while the event still waits
\* for its scheduled time.
C10_Witness ==
  /\ err # ""
  /\ \E i \in 1..Len(queue) : queue[i].time > now

\* C11: succeed(value, delay) on a pending event files exactly one firing
\* of the event at now + delay and runs no callback inside the call; the
\* callbacks run in the scheduler step that pops the firing, at the time it
\* was filed for, also when delay is 0.
C11_DeferredFiring ==
  [][/\ \A e \in DOMAIN events :
          events[e].value = PENDING
            => \A v \in 0..MaxValue, d \in 0..MaxDelay :
                 LET R == Succeed([State EXCEPT !.err = ""], e, v, d)
                 IN /\ R.err = "" /\ R.now = now
                    /\ R.hist.fired = hist.fired
                    /\ ~R.events[e].processed
                    /\ R.events[e].callbacks = events[e].callbacks
                    /\ \E i \in 1..Len(R.queue) :
                         /\ R.queue[i].ev = e /\ R.queue[i].time = now + d
                         /\ R.queue = SubSeq(queue, 1, i - 1) \o <<R.queue[i]>>
                                        \o SubSeq(queue, i, Len(queue))
     /\ \A e \in DOMAIN events' :
          ResolvedByStep(e)
            => hist.fired' = hist.fired /\ ~events'[e].processed
     /\ hist.fired' # hist.fired
          => /\ queue # <<>> /\ now' = Head(queue).time /\ now' >= now
             /\ hist.fired' = Append(hist.fired,
                                      [ev |-> Head(queue).ev, time |-> now'])
             /\ events[Head(queue).ev].value # PENDING]_vars

\* C11 witness: the callback of an event succeeded with delay 0 has run at
\* the tick of the call, and another one has run at a later tick.
C11_Witness ==
  /\ \E i \in 1..Len(hist.fired) : hist.fired[i].time = 0
  /\ \E i \in 1..Len(hist.fired) : hist.fired[i].time > 0

\* the candidate of C met first when scanning the ports upwards from s
NextFrom(C, s) ==
  CHOOSE c \in C : \A d \in C :
    ((c - s) % xbar.inPorts) <= ((d - s) % xbar.inPorts)

\* how often port i occurs in w[k..k+len-1]
CountIn(w, k, len, i) == Cardinality({j \in k..(k + len - 1) : w[j] = i})

\* C14: round robin.  While the same set C of N inputs contends, the first
\* round serves the candidate met first from (lastServed + 1) mod inPorts,
\* each further round serves the next candidate in increasing port order
\* (wrapping), and N consecutive rounds serve every input of C exactly
\* once; 4 inputs all contending from construction are served 0, 1, 2, 3.
C14_RoundRobin ==
  xbar.cls = "RoundRobinCrossbar"
    => LET C == arb.cands
           w == arb.wins
           N == Cardinality(C)
       IN /\ err = ""
          /\ Len(w) >= 1
               => w[1] = NextFrom(C, (arb.start + 1) % xbar.inPorts)
          /\ \A k \in 1..(Len(w) - 1) :
               w[k + 1] = NextFrom(C, (w[k] + 1) % xbar.inPorts)
          /\ \A k \in 1..(Len(w) - N + 1) :
               \A i \in C : CountIn(w, k, N, i) = 1
          /\ (xbar.inPorts = 4 /\ C = 0..3 /\ ~arb.changed /\ Len(w) >= 4)
               => SubSeq(w, 1, 4) = <<0, 1, 2, 3>>

\* C14 witness: four inputs contending from construction have been served in
\* five rounds (the fifth wraps around to input 0).
C14_Witness ==
  /\ xbar.cls = "RoundRobinCrossbar" /\ xbar.inPorts = 4
  /\ arb.cands = 0..3 /\ ~arb.changed /\ arb.wins = <<0, 1, 2, 3, 0>>

\* sum(weights)
RECURSIVE SumSeq(_)
SumSeq(s) == IF s = <<>> THEN 0 ELSE Head(s) + SumSeq(Tail(s))

\* C15 (as claimed): weighted round robin.  While all inputs contend from
\* construction on, every round grants an input 0..inPorts-1 and in any
\* sum(weights) consecutive grants input i gets exactly weights[i] of them.
C15_WeightedShares ==
  (/\ xbar.cls = "WeightedRoundRobinCrossbar" /\ xbar.hasWeights
   /\ ~arb.changed /\ arb.cands = Ports)
    => LET w == arb.wins
           total == SumSeq(xbar.weights)
       IN /\ err = ""
          /\ Len(w) = arb.calls
          /\ \A k \in 1..Len(w) : w[k] \in Ports
          /\ \A k \in 1..(Len(w) - total + 1) :
               \A i \in Ports :
                 CountIn(w, k, total, i) = At(xbar.weights, i)

\* C16: fixed priority.  The input chosen in a round is a candidate of that
\* round and no candidate of the round has a higher priority.
C16_FixedPriority ==
  (/\ xbar.cls = "FixedPriorityCrossbar" /\ arb.calls > 0
   /\ arb.last.cands # {})
    => /\ arb.last.ok
       /\ arb.last.result \in arb.last.cands
       /\ \A c \in arb.last.cands :
            At(xbar.priorities, c) <= At(xbar.priorities, arb.last.result)

\* C16 witness: a round chose an input of higher priority although a
\* candidate of lower priority comes first in the scan order.
C16_Witness ==
  /\ xbar.cls = "FixedPriorityCrossbar" /\ arb.calls > 0
  /\ arb.last.ok /\ arb.last.result \in arb.last.cands
  /\ \E c \in arb.last.cands :
       /\ c < arb.last.result
       /\ At(xbar.priorities, c) < At(xbar.priorities, arb.last.result)

\* C17 (as claimed): every policy returns None exactly when there is no
\* candidate, and otherwise one index 0..inPorts-1 of a candidate, to which
\* it sets lastport[outPort].
C17_ArbiterContract ==
  (/\ xbar.cls # "" /\ arb.calls > 0
   /\ xbar.cls = "WeightedRoundRobinCrossbar" => xbar.hasWeights)
    => /\ arb.last.ok
       /\ arb.last.cands = {} <=> arb.last.result = NonePort
       /\ arb.last.cands # {}
            => /\ arb.last.result \in Ports
               /\ arb.last.result \in arb.last.cands
               /\ At(xbar.lastport, 0) = arb.last.result

\* C19 (as claimed): a weighted round robin crossbar without valid weights
\* does not exist: its construction raised and no round was run.
C19_WeightsChecked ==
  (xbar.cls = "WeightedRoundRobinCrossbar" /\ ~xbar.hasWeights)
    => err # "" /\ arb.calls = 0

\* a put accepted earlier is still in its post-put delay: the firing of
\* its BufferPut event lies in the future
PutWindowOpen ==
  \E i \in 1..Len(queue) :
    queue[i].ev[1] = "BufferPut" /\ queue[i].time > now

\* C20 (as claimed): a put requested while the post-put delay of the put
\* accepted before it has not elapsed is not accepted, and the request
\* ends the run with a fatal error.
C20_OnePutWindow ==
  [][\A e \in EventsOf("BufferPut")' \ EventsOf("BufferPut") :
       PutWindowOpen => events'[e].value = PENDING /\ err' # ""]_vars


\* the cleanup events whose _cleanup callback has run
CleanedUp == {c \in EventsOf("cleanupEvent") : events[c].processed}

\* the arbitration events created and not yet followed by a cleanup
Outstanding == Cardinality(EventsOf("arbEvent")) - Cardinality(CleanedUp)

\* input port p is routed to outPort and its unmask event is triggered
Unmasked(p, outPort) ==
  /\ At(xbar.routes, p) = outPort
  /\ At(xbar.unMaskEvents, p) # NoEvent
  /\ Triggered(State, At(xbar.unMaskEvents, p))

\* C12: at most one arbitration round of the output is outstanding: the
\* arbitration events created exceed the cleanups that have run by at most
\* one, and by one exactly while arbEvents[outPort] holds an event; so from
\* the creation of an arbitration event until the cleanup of its round no
\* second one is created, whatever peeks, unmask events, gets and cleanups
\* interleave.
C12_OneRoundOutstanding ==
  xbar.cls # "" =>
    /\ Outstanding \in {0, 1}
    /\ Outstanding = 1 <=> At(xbar.arbEvents, 0) # NoEvent

\* C12 witness: a round is outstanding while a Get request waits and an
\* unmasked input is routed to the output, after an earlier round was
\* cleaned up
C12_Witness ==
  /\ err = "" /\ Outstanding = 1 /\ CleanedUp # {}
  /\ At(xbar.get_queues, 0) # <<>>
  /\ \E p \in Ports : Unmasked(p, 0)

\* the arbitration event whose _do_get callback runs in this step
RoundOf(a) ==
  /\ a \in EventsOf("arbEvent")
  /\ ~events[a].processed /\ events'[a].processed

\* the cleanup event whose _cleanup callback runs in this step
CleanupOf(c) ==
  /\ c \in EventsOf("cleanupEvent")
  /\ ~events[c].processed /\ events'[c].processed

\* the cleanup events created in this step
NewCleanups ==
  {e \in DOMAIN events' \ DOMAIN events : e[1] = "cleanupEvent"}

\* the input a cleanup event names, as the lists of the crossbar index it
Selected(c) == PyIdx(events'[c].value, xbar.inPorts)

EntriesIn(q, e) == {i \in 1..Len(q) : q[i].ev = e}

\* the arbitration events created in this step
NewArbEvents ==
  {e \in DOMAIN events' \ DOMAIN events : e[1] = "arbEvent"}

C21_SurplusCreditFatal ==
  pipeCls = "FlowControlledPipeline" /\ err = "" => credit_put_queue = <<>>

\* the request whose cancel() is called in this step
Cancelled(e) == hist'.cancelled = Append(hist.cancelled, e)

\* everything but the history and the request queues
Rest == <<now, queue, events, err, packets, items, putDebt, getDebt,
          putBusy, pipePutDebt, credit_items>>

\* C22: cancel() on a pending request of a buffer removes this request from
\* its queue within the call, leaves the other requests of the queue in
\* their order, and touches no other queue, no event and no item; cancel()
\* on a triggered request changes nothing; and a request cancelled while
\* pending is never triggered and never back in its queue afterwards.
C22_Cancel ==
  [][ /\ \A e \in DOMAIN events :
           Cancelled(e) =>
             LET q == QueueName(e)
                 qu == QueueOf(State, q)
             IN /\ IsPending(e) /\ InSeq(e, qu) =>
                     /\ \A r \in {"put_queue", "get_queue", "peek_queue"} :
                          QueueOf(State, r)' =
                            IF r = q THEN RemoveAt(qu, IndexOf(e, qu))
                            ELSE QueueOf(State, r)
                     /\ UNCHANGED Rest
                /\ ~IsPending(e) =>
                     UNCHANGED <<Rest, put_queue, get_queue, peek_queue>>
      /\ \A i \in 1..Len(hist.cancelled) :
           LET e == hist.cancelled[i]
           IN IsPending(e) =>
                /\ events'[e].value = PENDING
                /\ ~InSeq(e, QueueOf(State, QueueName(e)))
    ]_vars

\* C22 witness: of three pending requests of one queue the second was
\* cancelled, the first and the third wait in this order
C22_Witness ==
  /\ err = ""
  /\ \E c \in {"BufferPut", "BufferGet", "BufferPeek"} :
       /\ <<c, 2>> \in DOMAIN events /\ IsPending(<<c, 2>>)
       /\ hist.cancelled = << <<c, 2>> >>
       /\ QueueOf(State, QueueName(<<c, 2>>)) = << <<c, 1>>, <<c, 3>> >>

\* the put of the pipeline accepted in this step, with its packet
AcceptedPut(e) ==
  /\ Len(hist'.piped) = Len(hist.piped) + 1
  /\ hist'.piped[Len(hist'.piped)].ev = e

\* the time at which the pipeline accepted packet pkt
AcceptedAt(pkt) ==
  LET i == CHOOSE i \in 1..Len(hist.piped) : events[hist.piped[i].ev].item = pkt
  IN hist.piped[i].time

\* the downstream puts created in this step
NewDownstreamPuts ==
  {e \in DOMAIN events' \ DOMAIN events : e[1] = "BufferPut"}

\* the packets the pipeline has accepted and not yet put downstream
Flying ==
  {hist.piped[i].ev : i \in 1..Len(hist.piped)} \
  {e \in EventsOf("PipelinePut") :
     \E b \in EventsOf("BufferPut") : events[b].item = events[e].item}

\* C23: a put the pipeline accepts at time t is scheduled to fire at t plus
\* its drain time, the packet's whole ticks plus the whole part of carried
\* debt plus remainder, whatever the depth is; and its packet is put into the
\* downstream resource at t plus depth cycles, whatever the drain time is.
C23_DrainAndDepth ==
  [][ /\ \A e \in DOMAIN events' :
           AcceptedPut(e) /\ err' = "" =>
             LET pkt == events'[e].item
                 drain == (packets'[pkt].ticks
                           + (pipePutDebt + packets'[pkt].debt) \div DebtDen)
                          * simTicksPerCycle
             IN /\ hist'.piped[Len(hist'.piped)].time = now'
                /\ \E i \in EntriesIn(queue', e) : queue'[i].time = now' + drain
      /\ \A b \in NewDownstreamPuts :
           now' = AcceptedAt(events'[b].item) + depth * simTicksPerCycle
    ]_vars

\* C23 witness: two packets are in flight at once, and the put of one of
\* them has fired though its packet is not yet downstream
C23_Witness ==
  /\ err = "" /\ Cardinality(Flying) = 2
  /\ \E e \in Flying : events[e].processed

\* C24: a step in which _check runs succeeds the ConcurrentAllOf event if
\* every event that is in its list at that moment is triggered, and else
\* leaves it pending with _check among the callbacks of a pending event of
\* the list; a step in which _check does not run does not succeed it. Each
\* run of _check looks at the whole list as it is then, also after an event
\* of the list was replaced.
C24_AllOfTogether ==
  [][ \/ AllOf \notin DOMAIN events'
      \/ err' # ""
      \/ LET list == eventList'
             together == \A i \in 1..Len(list) : events'[list[i]].value # PENDING
             was == AllOf \in DOMAIN events /\ events[AllOf].value # PENDING
         IN /\ hist'.checks # hist.checks =>
                 IF together THEN events'[AllOf].value # PENDING
                 ELSE /\ events'[AllOf].value = PENDING
                      /\ \E i \in 1..Len(list) :
                           /\ events'[list[i]].value = PENDING
                           /\ InSeq("ConcurrentAllOf._check",
                                    events'[list[i]].callbacks)
            /\ hist'.checks = hist.checks =>
                 ((events'[AllOf].value # PENDING) <=> was)
    ]_vars

\* C24 witness: the event has succeeded in its third check or later, over a
\* list of two events one of which was replaced
C24_Witness ==
  /\ err = "" /\ AllOf \in DOMAIN events /\ Triggered(State, AllOf)
  /\ hist.checks >= 3 /\ hist.spurious = 1 /\ Len(eventList) = 2

\* the cleanups of granted rounds that have run
Served == CleanedUp \ arb.declined

\* a round whose arbitration event has fired is between its transfer and
\* its cleanup
InTransfer ==
  Cardinality({a \in EventsOf("arbEvent") : events[a].processed})
    > Cardinality(CleanedUp)

\* the k-th Get request made on the output is the oldest one waiting, no
\* transfer is under way, and an unmasked input is routed to the output (the
\* fixed priority crossbar, whose decision message is known to raise, is
\* left out)
ReadyFor(k) ==
  /\ xbar.cls \notin {"", "FixedPriorityCrossbar"}
  /\ At(xbar.get_queues, 0) # <<>>
  /\ Head(At(xbar.get_queues, 0)) = <<"CrossbarGet", k>>
  /\ ~InTransfer
  /\ \E p \in Ports : Unmasked(p, 0)

\* the k-th Get request holds a packet and the cleanup of its round, which
\* peeks the winner's input again, has run
DeliveredTo(k) ==
  /\ <<"CrossbarGet", k>> \in DOMAIN events
  /\ Triggered(State, <<"CrossbarGet", k>>)
  /\ Cardinality(Served) >= k

\* the rounds the upstream declined and whose cleanup has run
Refused == arb.declined \cap CleanedUp

\* C25: while the event loop runs, a Get request that is the
\* oldest of the output when an unmasked input is routed to the output is
\* eventually given a packet and the winner's input is peeked again, unless
\* the upstream declines the get of a round in between.
C25_Progress ==
  \A k \in 1..MaxXCalls : \A n \in 0..MaxXCalls :
    (ReadyFor(k) /\ Cardinality(Refused) = n) ~>
      (DeliveredTo(k) \/ Cardinality(Refused) > n)
\* the event e did not exist before this step
Fresh(e) == e \in DOMAIN events' \ DOMAIN events

\* C26: the step in which the cleanup of a round runs for input i and output
\* o discards the route, the routed packet and the unmask event of input i,
\* clears the arbitration marker of o and issues a fresh peek on input i:
\* after the step peekEvents[i] is an event created in the step; while that
\* peek is pending routes[i], routedPktList[i] and unMaskEvents[i] are unset,
\* and when it resolved at once they are the route, the packet and a new
\* unmask event of the peeked packet; arbEvents[o] is unset or an event
\* created in the step. The route, the routed packet and the peek event of
\* every other input are what they were.
C26_Cleanup ==
  [][ \A c \in DOMAIN events :
        CleanupOf(c) /\ err' = "" =>
          LET i == Selected(c)
              o == events[c].item
              pe == At(xbar'.peekEvents, i)
          IN /\ Fresh(pe)
             /\ \/ /\ events'[pe].value = PENDING
                   /\ At(xbar'.routes, i) = NonePort
                   /\ At(xbar'.routedPktList, i) = None
                   /\ At(xbar'.unMaskEvents, i) = NoEvent
                \/ /\ events'[pe].value # PENDING
                   /\ At(xbar'.routes, i) = o
                   /\ At(xbar'.routedPktList, i) = events'[pe].value
                   /\ Fresh(At(xbar'.unMaskEvents, i))
             /\ \/ At(xbar'.arbEvents, o) = NoEvent
                \/ Fresh(At(xbar'.arbEvents, o))
             /\ \A p \in Ports \ {i} :
                  /\ At(xbar'.routes, p) = At(xbar.routes, p)
                  /\ At(xbar'.routedPktList, p) = At(xbar.routedPktList, p)
                  /\ At(xbar'.peekEvents, p) = At(xbar.peekEvents, p)
    ]_vars

\* C26 witness: the cleanup of a served round has run, the served input is
\* unset and waits on a pending peek, and the other input is still routed
C26_Witness ==
  /\ err = "" /\ xbar.inPorts = 2
  /\ \E c \in Served :
       LET i == PyIdx(events[c].value, xbar.inPorts)
       IN /\ At(xbar.routes, i) = NonePort
          /\ At(xbar.routedPktList, i) = None
          /\ At(xbar.unMaskEvents, i) = NoEvent
          /\ events[At(xbar.peekEvents, i)].value = PENDING
          /\ At(xbar.routes, 1 - i) = 0
\* C27: in the step in which the cleanup of a round of output o runs, if an
\* input other than the served one is routed to o, its unmask event is
\* triggered when the cleanup returns, and a Get request is waiting on o,
\* then the cleanup itself creates the arbitration event of the next round,
\* marks it in arbEvents[o] and schedules it for the current time; no call
\* from outside the crossbar is part of the step.
C27_Reoffer ==
  [][ \A c \in DOMAIN events :
        CleanupOf(c) /\ err' = "" =>
          LET i == Selected(c)
              o == events[c].item
              a == At(xbar'.arbEvents, o)
          IN (/\ At(xbar.get_queues, o) # <<>>
              /\ \E p \in Ports \ {i} :
                   /\ At(xbar.routes, p) = o
                   /\ At(xbar'.unMaskEvents, p) # NoEvent
                   /\ events'[At(xbar'.unMaskEvents, p)].value # PENDING)
             => /\ NewArbEvents = {a}
                /\ \E k \in 1..Len(queue') :
                     queue'[k].ev = a /\ queue'[k].time = now'
    ]_vars

\* C27 witness: the first round was declined, so its Get request was still
\* waiting when its cleanup ran with the other inputs routed, and the
\* arbitration event of the second round exists
C27_Witness ==
  /\ err = "" /\ xbar.inPorts >= 2
  /\ Cardinality(CleanedUp) = 1 /\ CleanedUp = arb.declined
  /\ At(xbar.get_queues, 0) # <<>>
  /\ \A p \in Ports : Unmasked(p, 0)
  /\ At(xbar.arbEvents, 0) = <<"arbEvent", 2>>
\* the Get requests of output o that are pending, by age
PendingGets(o) ==
  {g \in EventsOf("CrossbarGet") :
     events[g].item = o /\ events[g].value = PENDING}

Draining ==
  {e \in EventsOf("PipelinePut") :
     events[e].value # PENDING /\ ~events[e].processed}

\* C29: putBusy is true exactly while an accepted put of the pipeline is
\* draining (from its acceptance until its event fires), and no second put
\* is accepted into the stage while one is draining.
C29_BusyWhileDraining ==
  pipeCls # "" =>
    /\ putBusy <=> (Draining # {})
    /\ Cardinality(Draining) <= 1
\* the time for which event e is scheduled after this step
ScheduledFor(e) ==
  LET k == CHOOSE k \in 1..Len(queue') : queue'[k].ev = e
  IN queue'[k].time

\* the put event e of packet pkt, accepted in this step, is charged
\* (scheduled after) the packet's whole ticks plus the whole part of debt
\* plus remainder, and no part of the remainder is charged twice or lost:
\* DebtDen times the charge plus the debt left equals DebtDen times the
\* whole ticks plus the debt before plus the remainder
ChargedOnce(e, pkt, before, after) ==
  LET t == packets'[pkt]
      charge == ScheduledFor(e) - now'
  IN /\ t.debt \in 0..(DebtDen - 1)
     /\ Cardinality(EntriesIn(queue', e)) = 1
     /\ after \in 0..(DebtDen - 1)
     /\ charge = (t.ticks + ((before + t.debt) \div DebtDen)) * simTicksPerCycle
     /\ charge * DebtDen + after * simTicksPerCycle
          = (t.ticks * DebtDen + before + t.debt) * simTicksPerCycle

\* C30: with remainders in fixed point (units of 1/DebtDen), the put debt of
\* the pipeline and of the buffer is in [0,1) in every state, and every put
\* the pipeline or the buffer accepts is charged its whole ticks plus
\* floor(putDebt before + remainder), the debt after the put being what is
\* left; each step accepts at most one put of each.
C30_PutDebt ==
  [][ /\ pipePutDebt' \in 0..(DebtDen - 1)
      /\ putDebt' \in 0..(DebtDen - 1)
      /\ Len(hist'.piped) <= Len(hist.piped) + 1
      /\ Len(hist'.accepted) <= Len(hist.accepted) + 1
      /\ Len(hist'.piped) = Len(hist.piped) + 1 =>
           LET e == hist'.piped[Len(hist'.piped)].ev
           IN ChargedOnce(e, events'[e].item, pipePutDebt, pipePutDebt')
      /\ Len(hist'.piped) = Len(hist.piped) => pipePutDebt' = pipePutDebt
      /\ Len(hist'.accepted) = Len(hist.accepted) + 1 =>
           LET e == hist'.accepted[Len(hist'.accepted)].ev
           IN ChargedOnce(e, events'[e].item, putDebt, putDebt')
      /\ Len(hist'.accepted) = Len(hist.accepted) => putDebt' = putDebt
    ]_vars

\* the remainders of the packets of the puts in h, in order
RemaindersOf(h) == [i \in 1..Len(h) |-> packets[events[h[i].ev].item].debt]

\* C30 witness: the pipeline and the buffer have each accepted two packets
\* whose remainders are positive and add up to one tick or more, and hold
\* what is left of the sum as debt
C30_Witness ==
  /\ err = ""
  /\ Len(hist.piped) = 2 /\ Len(hist.accepted) = 2
  /\ LET r == RemaindersOf(hist.piped)
     IN /\ r[1] > 0 /\ r[2] > 0 /\ r[1] + r[2] >= DebtDen
        /\ pipePutDebt = r[1] + r[2] - DebtDen
  /\ LET r == RemaindersOf(hist.accepted)
     IN /\ r[1] > 0 /\ r[2] > 0 /\ r[1] + r[2] >= DebtDen
        /\ putDebt = r[1] + r[2] - DebtDen
\* C31: in the step that grants a Get request of a Buffer, the read time of
\* the item handed out, as the two delay methods of the get side give it
\* before the get, is getDelay plus the item's whole ticks plus
\* floor(getDebt before the get + the item's remainder).
C31_GetDebtCharged ==
  [][ (cls = "Buffer" /\ Len(hist'.granted) = Len(hist.granted) + 1) =>
        LET e == hist'.granted[Len(hist'.granted)].ev
            item == events'[e].value
            S == [State EXCEPT !.packets = packets']
            t == getTicks(S, item)
        IN addPreGetDelay(S, item) + addPostGetDelay(S, item)
             = (getDelay + t.ticks + DebtCarry(getDebt, t.debt))
               * simTicksPerCycle
    ]_vars

\* C32: whenever control is back at the scheduler of a run that has not
\* raised, the three fields of every input of the crossbar agree: routes[i]
\* is unset iff routedPktList[i] is unset iff unMaskEvents[i] is unset, and
\* an input with a route set has a triggered peek event.
C32_PortState ==
  (xbar.cls # "" /\ err = "") =>
    \A i \in 0..(xbar.inPorts - 1) :
      /\ (At(xbar.routes, i) = NonePort) <=> (At(xbar.routedPktList, i) = None)
      /\ (At(xbar.routes, i) = NonePort) <=> (At(xbar.unMaskEvents, i) = NoEvent)
      /\ At(xbar.routes, i) # NonePort =>
            /\ At(xbar.peekEvents, i) # NoEvent
            /\ Triggered(State, At(xbar.peekEvents, i))

\* C32 witness: after a cleanup has run, one input has its route, its routed
\* packet and its unmask event set and another input has all three unset
C32_Witness ==
  /\ err = "" /\ CleanedUp # {}
  /\ \E i, j \in 0..(xbar.inPorts - 1) :
       /\ At(xbar.routes, i) # NonePort /\ At(xbar.routedPktList, i) # None
       /\ At(xbar.unMaskEvents, i) # NoEvent
       /\ At(xbar.routes, j) = NonePort /\ At(xbar.routedPktList, j) = None
       /\ At(xbar.unMaskEvents, j) = NoEvent

\* the Get requests of the crossbar that the step resolves
NewlyDelivered ==
  {g \in DOMAIN events' :
     /\ g[1] = "CrossbarGet" /\ events'[g].value # PENDING
     /\ g \in DOMAIN events => events[g].value = PENDING}

\* C33: a step that resolves a Get request of the crossbar hands it the
\* packet at the head of an upstream buffer whose input is routed to the
\* output of that Get, and no other Get request of the crossbar, of this
\* round or an earlier one, holds the same packet; rounds that follow a
\* declined grant are included.
C33_DeliveredOnce ==
  [][ \A g \in NewlyDelivered :
        /\ \E p \in 0..(xbar.inPorts - 1) :
             /\ At(xbar.routes, p) = events'[g].item
             /\ At(xbar.routedPktList, p) = events'[g].value
             /\ At(xbar.up, p) # <<>>
             /\ Head(At(xbar.up, p)) = events'[g].value
        /\ \A h \in DOMAIN events' :
             (h[1] = "CrossbarGet" /\ h # g) =>
                events'[h].value # events'[g].value
    ]_vars

\* C33 witness: after a declined grant, two Get requests of the crossbar hold
\* packets, and an input whose packet was delivered has been cleaned up
C33_Witness ==
  /\ err = "" /\ arb.declined # {}
  /\ \E g, h \in EventsOf("CrossbarGet") :
       /\ g # h /\ Triggered(State, g) /\ Triggered(State, h)
       /\ events[g].value # events[h].value
       /\ events[g].processed

\* C34: a step in which the upstream declines the get of a round of a
\* WeightedRoundRobinCrossbar or a FixedPriorityCrossbar leaves lastport,
\* the grants counters and the lastportPerClass pointers as they were
\* before the round.
C34_RolledBack ==
  [][ ( /\ xbar.cls \in {"WeightedRoundRobinCrossbar", "FixedPriorityCrossbar"}
        /\ arb'.declined # arb.declined /\ err' = "" ) =>
        /\ xbar'.lastport = xbar.lastport
        /\ xbar'.grants = xbar.grants
        /\ xbar'.lastportPerClass = xbar.lastportPerClass
    ]_vars

\* the insertions of the item of Put request e that were deferred by a
\* pre-put delay and have not run yet
InsertionsAhead(e) ==
  {ev \in EventsOf("NewEvent") :
     events[ev].item = events[e].item /\ ~events[ev].processed}

\* C35: the event of a Put request of a Buffer or a StoreAndForwardBuffer
\* has not fired while the insertion of its item into items is still ahead,
\* whatever putDelay and the transmit time of the packet are.
C35_PutAfterInsert ==
  cls \in {"Buffer", "StoreAndForwardBuffer"} =>
    \A e \in EventsOf("BufferPut") :
      events[e].processed => InsertionsAhead(e) = {}

\* the Get requests of the buffer that were granted
GrantedGets == {g \in EventsOf("BufferGet") : Triggered(State, g)}

\* C36: no two granted Get requests of a buffer hold the same stored item,
\* the granted Gets whose removal has run are as many as the items removed,
\* and no removal was attempted on an empty buffer; getDelay may be positive
\* and a second Get may be requested before the removal of the first.
C36_OneGetPerItem ==
  /\ \A g, h \in GrantedGets : g # h => events[g].value # events[h].value
  /\ Len(hist.removed) =
       Cardinality({g \in GrantedGets : getDelay = 0 \/ events[g].processed})
  /\ err # "IndexError: pop from empty list"

\* the position of the put of packet pkt among the accepted puts
AcceptedPos(pkt) ==
  CHOOSE k \in 1..Len(hist.accepted) : events[hist.accepted[k].ev].item = pkt

\* C37: a buffer hands its items out in the order in which their puts were
\* accepted: of two granted Gets the earlier one holds a packet that was not
\* accepted after the packet of the later one; the insertions may be
\* deferred by a pre-put delay that depends on the packet.
C37_FifoByAcceptance ==
  \A k, l \in 1..Len(hist.granted) :
    k < l => AcceptedPos(events[hist.granted[k].ev].value)
               <= AcceptedPos(events[hist.granted[l].ev].value)

\* the credits dispatched by the buffer and not yet back in the counter
CreditsReturning ==
  Cardinality({e \in EventsOf("putCreditEvent") : ~events[e].processed})
  + Len(credit_put_queue)

\* C38: in a flow controlled pipeline connected to a flow controlled buffer
\* of capacity initCredits, the available credits, the packets in the
\* pipeline, the puts waiting to be written into the buffer, the items
\* stored in the buffer and the credits dispatched and not yet added back
\* sum to initCredits.
C38_CreditConservation ==
  (pipeCls = "FlowControlledPipeline" /\ err = "") =>
    Len(credit_items) + Cardinality(Flying) + Len(put_queue) + Len(items)
      + CreditsReturning = initCredits

\* C38 witness: a credit is on its way back while a packet is stored in the
\* buffer and no credit is available
C38_Witness ==
  /\ pipeCls = "FlowControlledPipeline" /\ err = ""
  /\ credit_items = <<>> /\ Len(items) >= 1 /\ CreditsReturning >= 1
  /\ hist.dispatched >= 1

\* C39: in a WeightedRoundRobinCrossbar with non-negative integer weights,
\* after every arbitration round and for any sequence of candidate sets,
\* every grants counter lies between 0 and the weight of its input.
C39_GrantsBounded ==
  (xbar.cls = "WeightedRoundRobinCrossbar" /\ xbar.hasWeights) =>
    \A i \in 1..xbar.inPorts :
      0 <= xbar.grants[i] /\ xbar.grants[i] <= xbar.weights[i]

\* C40: once the scheduler has no event left to process, a ConcurrentAllOf
\* event whose list holds only triggered events has succeeded, whatever
\* events of the list were triggered or replaced by pending events before;
\* and it is never succeeded a second time.
C40_NoMiss ==
  /\ ( /\ err = "" /\ AllOf \in DOMAIN events /\ queue = <<>>
       /\ hist.stale = 0
       /\ \A i \in 1..Len(eventList) : Triggered(State, eventList[i]) )
       => Triggered(State, AllOf)
  /\ err # "RuntimeError: has already been triggered"

=============================================================================
